---- MODULE Spec2Model ----
(***************************************************************************)
(* Deal discovery of projeto_afiliados: the community scraper (Pelando /   *)
(* Promobit), the direct Amazon scraper and the local Playwright script.   *)
(* Three pipelines share one shape: fetch each source in turn, extract     *)
(* listings, then deduplicate, filter, sort by deal score and truncate.    *)
(*                                                                         *)
(* Numbers: prices are whole reais, ratings are tenths (45 is 4.5), and    *)
(* the deal score is computed in fixed point, in millionths of a point.    *)
(***************************************************************************)
EXTENDS Integers, Sequences, FiniteSets, TLC

VARIABLES
    pipe,          \* "community", "amazon" or "local": which scraper runs
    maxRequests,   \* CONFIG.MAX_REQUESTS / CONFIG.MAX_REQUESTS_PER_SESSION
    limit,         \* discover's limit argument
    pc,            \* where the run is suspended
    srcIdx,        \* index of the source of the current loop iteration
    attempt,       \* fetchWithRetry's loop variable
    requestCount,  \* stats.requestCount
    errors,        \* stats.errors
    dealsFound,    \* stats.dealsFound / stats.productsFound
    html,          \* what fetchWithRetry returned to the loop
    allDeals,      \* allDeals / allProducts
    call,          \* history of the fetchWithRetry call in progress
    fetchLog,      \* history: the finished fetchWithRetry calls, in order
    httpCalls,     \* history: number of HTTP requests issued
    delayLog,      \* history: source indexes followed by an inter-source delay
    deduped,       \* discover's list after deduplication
    filtered,      \* discover's list after the quality filter
    output,        \* what discover returned
    scoreIn,       \* argument of a calculateDealScore call
    scoreOut,      \* its result, with the variant that computed it
    trigger,       \* the function that runs discover, with its request
    store,         \* the products collection: document id to document
    batch,         \* the writes queued on the Firestore batch, in order
    arg,           \* argument of a helper function call
    result,        \* its result, with the variant that computed it
    replay,        \* fixture html, Date.now() and what the discover calls
                   \* over that fixture returned
    clicks         \* the clicks collection: the documents added, in order

vars == <<pipe, maxRequests, limit, pc, srcIdx, attempt, requestCount, errors,
          dealsFound, html, allDeals, call, fetchLog, httpCalls, delayLog,
          deduped, filtered, output, scoreIn, scoreOut, trigger, store,
          batch, arg, result, replay, clicks>>

-----------------------------------------------------------------------------
(* Bounds of the model *)

\* largest of the small request ceilings a session is configured with
MaxBudget == 3
\* longest accumulated list handed to post-processing in SpecAgg
MaxListings == 2
\* longest accumulated list handed to post-processing in SpecTie
MaxTieListings == 3
\* latest reading of the clock in SpecReplay
MaxClock == 3

-----------------------------------------------------------------------------
(* Configuration *)

MAX_REQUESTS == 4
MAX_REQUESTS_PER_SESSION == 6
MAX_RETRIES == 2
DEFAULT_LIMIT == 20
MAX_PRODUCTS_PER_SOURCE == 30
MAX_PRODUCTS_PER_SOURCE_AMAZON == 25
MAX_PRODUCTS_PER_PAGE_LOCAL == 30
MIN_UPVOTES == 5
MIN_DISCOUNT == 10
MIN_TITLE_LENGTH == 10
MIN_PRICE_COMMUNITY == 20
MAX_PRICE_COMMUNITY == 3000
MIN_PRICE == 25
MAX_PRICE == 2500
MIN_RATING == 30
MIN_REVIEWS == 10
ASIN_LENGTH == 10

Pipes == {"community", "amazon", "local"}

\* COMMUNITY_SOURCES, SCRAPE_SOURCES and SCRAPE_URLS, in their order
COMMUNITY_SOURCES ==
    << [name |-> "Pelando"], [name |-> "Promobit"] >>

SCRAPE_SOURCES ==
    << [category |-> "general",     type |-> "deals"],
       [category |-> "electronics", type |-> "bestsellers"],
       [category |-> "home",        type |-> "bestsellers"],
       [category |-> "sports",      type |-> "bestsellers"],
       [category |-> "toys",        type |-> "bestsellers"],
       [category |-> "electronics", type |-> "bestsellers"] >>

SCRAPE_URLS ==
    << [category |-> "deals",       type |-> "deals"],
       [category |-> "electronics", type |-> "bestsellers"],
       [category |-> "home",        type |-> "bestsellers"],
       [category |-> "sports",      type |-> "bestsellers"],
       [category |-> "toys",        type |-> "bestsellers"] >>

NumSources(p) ==
    CASE p = "community" -> Len(COMMUNITY_SOURCES)
      [] p = "amazon"    -> Len(SCRAPE_SOURCES)
      [] p = "local"     -> Len(SCRAPE_URLS)

\* the request ceilings sessions run with: the small ones and the configured one
Budgets(p) ==
    (1..MaxBudget) \cup {IF p = "community" THEN MAX_REQUESTS
                         ELSE MAX_REQUESTS_PER_SESSION}

Categories == {"electronics", "home", "sports", "toys", "other"}

\* CATEGORY_WEIGHTS of the community scraper
CATEGORY_WEIGHTS_community ==
    [electronics |-> 100, home |-> 80, sports |-> 75, toys |-> 70, other |-> 50]

\* CATEGORY_WEIGHTS of the Amazon scraper
CATEGORY_WEIGHTS_amazon ==
    [electronics |-> 100, home |-> 80, sports |-> 75, toys |-> 70, other |-> 40]

\* categoryWeights of the local script
categoryWeights_local ==
    [electronics |-> 100, home |-> 80, sports |-> 75, toys |-> 70, other |-> 50]

-----------------------------------------------------------------------------
(* Deal score.  Sub-scores are in 1/10000 of a point, the weighted sum in   *)
(* millionths; on the values used here the result equals the IEEE double   *)
(* evaluation of the source expression.                                    *)

Min(a, b) == IF a <= b THEN a ELSE b
Max(a, b) == IF a >= b THEN a ELSE b

\* Math.log10, times 10000 and rounded, on the arguments the model uses
Log10x10000(n) ==
    CASE n = 1     -> 0
      [] n = 2     -> 3010
      [] n = 5     -> 6990
      [] n = 6     -> 7782
      [] n = 9     -> 9542
      [] n = 10    -> 10000
      [] n = 100   -> 20000
      [] n = 501   -> 26998
      [] n = 5000  -> 36990
      [] n = 20000 -> 43010

\* Math.round of a non-negative or negative amount given in millionths
MathRound(millionths) == (millionths + 500000) \div 1000000

\* Math.min((discount / 40) * 100, 100)
discountScore(discount) == Min(25000 * discount, 1000000)

\* Math.min((Math.log10(Math.max(upvotes, 1) + 1) / 2) * 100, 100)
upvoteScore(upvotes) == Min(50 * Log10x10000(Max(upvotes, 1) + 1), 1000000)

\* Math.max(((rating - 3) / 2) * 100, 0)
ratingScore(rating10) == Max(50000 * (rating10 - 30), 0)

\* Math.min((Math.log10(Math.max(reviews, 1)) / Math.log10(5000)) * 100, 100)
reviewScore(reviews) ==
    Min(((Log10x10000(Max(reviews, 1)) * 10000) \div Log10x10000(5000)) * 100,
        1000000)

\* calculateDealScore of the community scraper
calculateDealScore_community(deal) ==
    LET categoryScore == CATEGORY_WEIGHTS_community[deal.normalizedCategory]
        asinBonus == IF deal.asin # "" THEN 15 ELSE 0
        score == 35 * discountScore(deal.discount)
                 + 30 * upvoteScore(deal.upvotes)
                 + 20 * (categoryScore * 10000)
                 + asinBonus * 1000000
    IN  MathRound(Min(score, 100 * 1000000))

\* calculateDealScore of the Amazon scraper
calculateDealScore_amazon(product) ==
    LET categoryScore == CATEGORY_WEIGHTS_amazon[product.normalizedCategory]
        sourceBonus == IF product.source = "deals" THEN 10 ELSE 0
        score == 30 * discountScore(product.discount)
                 + 25 * ratingScore(product.rating10)
                 + 20 * reviewScore(product.reviewCount)
                 + 15 * (categoryScore * 10000)
                 + sourceBonus * 1000000
    IN  MathRound(Min(score, 100 * 1000000))

\* calculateDealScore of the local script: the sum is rounded as it is
calculateDealScore_local(product) ==
    LET categoryScore == categoryWeights_local[product.normalizedCategory]
        sourceBonus == IF product.source = "deals" THEN 10 ELSE 0
    IN  MathRound(30 * discountScore(product.discount)
                  + 25 * ratingScore(product.rating10)
                  + 20 * reviewScore(product.reviewCount)
                  + 15 * (categoryScore * 10000)
                  + sourceBonus * 1000000)

-----------------------------------------------------------------------------
(* Text.  Strings are sequences of characters; toLowerCase and includes    *)
(* are computed on them.                                                   *)

UpperChars == <<"A", "B", "C", "D", "E", "F", "G", "H", "I", "J", "K", "L", "M",
                "N", "O", "P", "Q", "R", "S", "T", "U", "V", "W", "X", "Y", "Z",
                "Á", "Â", "Ã", "À", "Ç", "É", "Ê", "Í", "Ó", "Ô", "Õ", "Ú">>
LowerChars == <<"a", "b", "c", "d", "e", "f", "g", "h", "i", "j", "k", "l", "m",
                "n", "o", "p", "q", "r", "s", "t", "u", "v", "w", "x", "y", "z",
                "á", "â", "ã", "à", "ç", "é", "ê", "í", "ó", "ô", "õ", "ú">>

LowerChar(c) ==
    IF \E i \in 1..Len(UpperChars) : UpperChars[i] = c
    THEN LowerChars[CHOOSE i \in 1..Len(UpperChars) : UpperChars[i] = c]
    ELSE c

RECURSIVE toLowerCase(_)
toLowerCase(s) ==
    IF Len(s) = 0 THEN ""
    ELSE LowerChar(SubSeq(s, 1, 1)) \o toLowerCase(SubSeq(s, 2, Len(s)))

\* String.prototype.includes
includes(s, kw) ==
    \E i \in 1..(Len(s) - Len(kw) + 1) : SubSeq(s, i, i + Len(kw) - 1) = kw

\* CATEGORY_KEYWORDS of the community scraper, in Object.entries order
CATEGORY_KEYWORDS_community ==
    << [category |-> "electronics",
        keywords |-> {"eletrônico", "celular", "smartphone", "notebook", "tablet",
                      "fone", "tv", "monitor", "ssd", "hd", "mouse", "teclado",
                      "webcam", "câmera", "console", "playstation", "xbox",
                      "switch", "gamer"}],
       [category |-> "home",
        keywords |-> {"casa", "cozinha", "eletrodoméstico", "aspirador",
                      "cafeteira", "liquidificador", "airfryer", "panela",
                      "fogão", "geladeira", "micro-ondas", "ventilador",
                      "ar condicionado"}],
       [category |-> "sports",
        keywords |-> {"esporte", "academia", "fitness", "bike", "bicicleta",
                      "tênis", "corrida", "whey", "suplemento", "haltere",
                      "esteira"}],
       [category |-> "toys",
        keywords |-> {"brinquedo", "lego", "boneca", "carrinho", "jogo", "nerf",
                      "barbie", "hot wheels"}] >>

\* CATEGORY_MAPPING of the Amazon scraper (the labels as written)
CATEGORY_MAPPING ==
    << [category |-> "electronics",
        keywords |-> {"Eletrônicos", "TV, Áudio e Cinema em Casa",
                      "PC e Eletrônicos Portáteis", "Celulares",
                      "Câmera e Fotografia", "Videogames e Consoles",
                      "Acessórios para Eletrônicos", "Informática", "Games",
                      "Computadores", "Tablets", "Fones de Ouvido", "Smart Home",
                      "Wearables"}],
       [category |-> "home",
        keywords |-> {"Casa", "Eletrodomésticos de Linha Branca",
                      "Cozinha, Jardim e Piscina", "Móveis",
                      "Ferramentas e Construção", "Eletrodomésticos", "Cozinha",
                      "Decoração", "Organização", "Limpeza", "Iluminação"}],
       [category |-> "sports",
        keywords |-> {"Esportes, Aventura e Lazer", "Esportes", "Academia",
                      "Fitness", "Outdoor", "Camping", "Ciclismo", "Natação",
                      "Corrida", "Musculação"}],
       [category |-> "toys",
        keywords |-> {"Brinquedos e Jogos", "Brinquedos", "Games",
                      "Jogos de Tabuleiro", "LEGO", "Bonecas", "Carrinhos",
                      "Jogos Eletrônicos"}] >>

\* CATEGORY_ALIASES of the Amazon scraper, in Object.entries order
CATEGORY_ALIASES ==
    << [category |-> "sports",
        keywords |-> {"esporte", "esportes", "academia", "fitness", "aventura",
                      "outdoor", "camping", "ciclismo", "bike", "corrida"}],
       [category |-> "electronics",
        keywords |-> {"eletrônico", "eletronico", "tech", "tecnologia", "celular",
                      "smartphone", "computador", "pc", "gamer", "notebook",
                      "tablet", "fone"}],
       [category |-> "home",
        keywords |-> {"casa", "lar", "cozinha", "jardim", "móvel", "movel",
                      "decoração", "decoracao", "eletrodomestico", "limpeza"}],
       [category |-> "toys",
        keywords |-> {"brinquedo", "brinquedos", "jogos", "infantil", "criança",
                      "lego", "boneca"}] >>

\* CATEGORY_KEYWORDS of the local script
CATEGORY_KEYWORDS_local ==
    << [category |-> "electronics",
        keywords |-> {"eletrônico", "celular", "smartphone", "notebook", "tablet",
                      "fone", "tv", "monitor", "ssd", "mouse", "teclado",
                      "webcam", "console", "gamer"}],
       [category |-> "home",
        keywords |-> {"casa", "cozinha", "eletrodoméstico", "aspirador",
                      "cafeteira", "airfryer", "panela", "ventilador"}],
       [category |-> "sports",
        keywords |-> {"esporte", "academia", "fitness", "bike", "bicicleta",
                      "tênis", "corrida", "whey"}],
       [category |-> "toys",
        keywords |-> {"brinquedo", "lego", "boneca", "carrinho", "jogo",
                      "nerf"}] >>

\* the first entry of the table, from index i on, with a keyword that the
\* lower-cased text includes; "" when there is none
RECURSIVE FirstMatch(_, _, _, _)
FirstMatch(table, lower, i, lowerKeywords) ==
    IF i > Len(table) THEN ""
    ELSE IF \E kw \in table[i].keywords :
                includes(lower, IF lowerKeywords THEN toLowerCase(kw) ELSE kw)
         THEN table[i].category
         ELSE FirstMatch(table, lower, i + 1, lowerKeywords)

\* normalizeCategory of the community scraper
normalizeCategory_community(text) ==
    LET m == FirstMatch(CATEGORY_KEYWORDS_community, toLowerCase(text), 1, FALSE)
    IN  IF m # "" THEN m ELSE "other"

\* the tail of normalizeCategory of the Amazon scraper: the label match
\* first, the alias match second, "other" last
FirstCategory(exact, fuzzy) ==
    IF exact # "" THEN exact
    ELSE IF fuzzy # "" THEN fuzzy
    ELSE "other"

\* the two lookups of normalizeCategory on the lower-cased text
LookupCategory(lower) ==
    FirstCategory(FirstMatch(CATEGORY_MAPPING, lower, 1, TRUE),
                  FirstMatch(CATEGORY_ALIASES, lower, 1, FALSE))

\* normalizeCategory of the Amazon scraper: labels first, aliases second
normalizeCategory_amazon(amazonCategory) ==
    IF amazonCategory = "" THEN "other"
    ELSE LookupCategory(toLowerCase(amazonCategory))

\* normalizeCategory of the local script
normalizeCategory_local(text) ==
    LET m == FirstMatch(CATEGORY_KEYWORDS_local, toLowerCase(text), 1, FALSE)
    IN  IF m # "" THEN m ELSE "other"

-----------------------------------------------------------------------------
(* Item ids.  A card is what the selectors of one product card yield:      *)
(* [dataAsin, href, title, price, originalPrice, badge, upvotes, category, *)
(* rating10, reviewCount], numbers already parsed, 0 and "" when absent.    *)

AlnumChars == {"a", "b", "c", "d", "e", "f", "g", "h", "i", "j", "k", "l", "m",
               "n", "o", "p", "q", "r", "s", "t", "u", "v", "w", "x", "y", "z",
               "0", "1", "2", "3", "4", "5", "6", "7", "8", "9"}

UpperChar(c) ==
    IF \E i \in 1..Len(LowerChars) : LowerChars[i] = c
    THEN UpperChars[CHOOSE i \in 1..Len(LowerChars) : LowerChars[i] = c]
    ELSE c

RECURSIVE toUpperCase(_)
toUpperCase(s) ==
    IF Len(s) = 0 THEN ""
    ELSE UpperChar(SubSeq(s, 1, 1)) \o toUpperCase(SubSeq(s, 2, Len(s)))

\* number of characters of s from position i on that are alphanumeric
\* (alnum = TRUE) or are not "&" (alnum = FALSE)
RECURSIVE RunLength(_, _, _)
RunLength(s, i, alnum) ==
    IF i > Len(s) THEN 0
    ELSE LET c == SubSeq(s, i, i)
             ok == IF alnum THEN c \in AlnumChars ELSE c # "&"
         IN  IF ok THEN 1 + RunLength(s, i + 1, alnum) ELSE 0

\* the least number of a non-empty set
Least(S) == CHOOSE h \in S : \A g \in S : h <= g

\* the positions of url where the prefix is followed by at least atLeast
\* characters of the class; lower is url in lower case (the /i flag)
MatchPositions(lower, prefix, alnum, atLeast) ==
    {i \in 1..(Len(lower) - Len(prefix) + 1) :
        /\ SubSeq(lower, i, i + Len(prefix) - 1) = prefix
        /\ RunLength(lower, i + Len(prefix), alnum) >= atLeast}

\* the n characters of url from position i on
Captured(url, i, n) == SubSeq(url, i, i + n - 1)

\* the group captured at the leftmost of the positions; "" without a match
FixedGroup(url, hits, n) ==
    IF hits = {} THEN "" ELSE Captured(url, Least(hits) + n, ASIN_LENGTH)

GreedyGroup(url, lower, hits, n, alnum) ==
    IF hits = {} THEN ""
    ELSE Captured(url, Least(hits) + n, RunLength(lower, Least(hits) + n, alnum))

\* url.match(/prefix([A-Z0-9]{10})/i): the captured group, "" without a match
MatchFixed(url, lower, prefix) ==
    FixedGroup(url, MatchPositions(lower, prefix, TRUE, ASIN_LENGTH), Len(prefix))

\* url.match(/prefix(class+)/i) for a greedy group: the captured group
MatchGreedy(url, lower, prefix, alnum) ==
    GreedyGroup(url, lower, MatchPositions(lower, prefix, alnum, 1),
                Len(prefix), alnum)

\* the loop over the patterns: the first captured group of ten characters,
\* in upper case; "" stands for null
RECURSIVE FirstAsin(_, _)
FirstAsin(groups, i) ==
    IF i > Len(groups) THEN ""
    ELSE IF Len(groups[i]) = ASIN_LENGTH THEN toUpperCase(groups[i])
    ELSE FirstAsin(groups, i + 1)

\* the patterns of extractAsin of the community scraper
CommunityGroups(url, lower) ==
    << MatchFixed(url, lower, "amazon.com.br/dp/"),
       MatchFixed(url, lower, "amazon.com.br/gp/product/"),
       MatchGreedy(url, lower, "amzn.to/", TRUE),
       MatchGreedy(url, lower, "tag=", FALSE) >>

\* extractAsin of the community scraper
extractAsin_community(url) ==
    IF url = "" THEN "" ELSE FirstAsin(CommunityGroups(url, toLowerCase(url)), 1)

\* the patterns of extractAsin of the Amazon scraper
AmazonGroups(url, lower) ==
    << MatchFixed(url, lower, "/dp/"),
       MatchFixed(url, lower, "/gp/product/"),
       MatchFixed(url, lower, "/product/"),
       MatchFixed(url, lower, "asin=") >>

\* extractAsin of the Amazon scraper
extractAsin_amazon(url) ==
    IF url = "" THEN "" ELSE FirstAsin(AmazonGroups(url, toLowerCase(url)), 1)

\* the /dp/ match of the local script: the id as written in the link
extractAsin_local(href) == MatchFixed(href, toLowerCase(href), "/dp/")

\* title.toLowerCase().replace(/[^a-z0-9]/g, "")
RECURSIVE KeepAlnum(_)
KeepAlnum(s) ==
    IF Len(s) = 0 THEN ""
    ELSE (IF SubSeq(s, 1, 1) \in AlnumChars THEN SubSeq(s, 1, 1) ELSE "")
         \o KeepAlnum(SubSeq(s, 2, Len(s)))

\* String.prototype.substring(0, n)
substring0(s, n) == SubSeq(s, 1, Min(n, Len(s)))

\* generateDealId (prices are whole, Math.round leaves them as they are)
generateDealId(source, title, price) ==
    toLowerCase(source) \o "-" \o substring0(KeepAlnum(toLowerCase(title)), 20)
    \o "-" \o ToString(price)

\* Math.round(((originalPrice - price) / originalPrice) * 100)
DiscountPercent(originalPrice, price) ==
    (200 * (originalPrice - price) + originalPrice) \div (2 * originalPrice)

-----------------------------------------------------------------------------
(* The cards the model draws pages from.  A page is a sequence of card     *)
(* numbers, in document order.                                             *)

NoCard == [dataAsin |-> "", href |-> "", title |-> "", price |-> 0,
           originalPrice |-> 0, badge |-> 0, upvotes |-> 0, category |-> "",
           rating10 |-> 0, reviewCount |-> 0]

\* a community deal that passes every check, and its one-field variations
CommunityBase ==
    [NoCard EXCEPT !.href = "https://www.amazon.com.br/dp/B0AAAAAAA1",
                   !.title = "Notebook Dell Inspiron 15",
                   !.price = 100, !.badge = 40, !.upvotes = 99]

CommunityCards ==
    << CommunityBase,
       [CommunityBase EXCEPT !.price = 0],
       [CommunityBase EXCEPT !.price = 19],
       [CommunityBase EXCEPT !.price = 20],
       [CommunityBase EXCEPT !.price = 3000],
       [CommunityBase EXCEPT !.price = 3001],
       [CommunityBase EXCEPT !.upvotes = 4],
       [CommunityBase EXCEPT !.upvotes = 5],
       [CommunityBase EXCEPT !.badge = 9],
       [CommunityBase EXCEPT !.badge = 10],
       [CommunityBase EXCEPT !.badge = 0, !.originalPrice = 125],
       [CommunityBase EXCEPT !.href = "https://www.amazon.com.br/dp/B0AAAAAAA2",
                             !.title = "Panela de Pressão Tramontina",
                             !.category = "Casa"],
       [CommunityBase EXCEPT !.href = "https://amzn.to/3xYzAbC"],
       [CommunityBase EXCEPT !.href = "https://www.pelando.com.br/d/123"],
       [CommunityBase EXCEPT !.title = "Cabo USB"],
       [CommunityBase EXCEPT !.href = "https://www.amazon.com.br/dp/B0AAAAAAA3",
                             !.title = "Bicicleta Caloi Aro 29",
                             !.upvotes = 9],
       [CommunityBase EXCEPT !.badge = 35] >>

\* an Amazon product that passes every check, and its one-field variations
ProductBase ==
    [NoCard EXCEPT !.dataAsin = "B0AAAAAAA1",
                   !.title = "Notebook Dell Inspiron 15",
                   !.price = 100, !.badge = 40, !.rating10 = 45,
                   !.reviewCount = 100]

ProductCards ==
    << ProductBase,
       [ProductBase EXCEPT !.price = 0],
       [ProductBase EXCEPT !.price = 24],
       [ProductBase EXCEPT !.price = 25],
       [ProductBase EXCEPT !.price = 2500],
       [ProductBase EXCEPT !.price = 2501],
       [ProductBase EXCEPT !.rating10 = 0],
       [ProductBase EXCEPT !.rating10 = 29],
       [ProductBase EXCEPT !.rating10 = 30],
       [ProductBase EXCEPT !.rating10 = 99],
       [ProductBase EXCEPT !.reviewCount = 0],
       [ProductBase EXCEPT !.reviewCount = 9],
       [ProductBase EXCEPT !.reviewCount = 10],
       [ProductBase EXCEPT !.badge = 5],
       [ProductBase EXCEPT !.badge = 0, !.originalPrice = 125],
       [ProductBase EXCEPT !.dataAsin = "B0AAAAAAA2",
                           !.title = "Panela de Pressão Tramontina"],
       [ProductBase EXCEPT !.dataAsin = "",
                           !.href = "https://www.amazon.com.br/dp/b0aaaaaaa2"],
       [ProductBase EXCEPT !.title = "Fone JBL"],
       [ProductBase EXCEPT !.title = "Cabo"],
       [ProductBase EXCEPT !.dataAsin = "B0AAAAAAA3",
                           !.title = "Bicicleta Caloi Aro 29",
                           !.rating10 = 40] >>

Cards(p) == IF p = "community" THEN CommunityCards ELSE ProductCards

-----------------------------------------------------------------------------
(* Extraction: the cards of a page, in document order, to listings.        *)

\* a community scraper that computes the discount from the prices first and
\* reads the badge only when that gives nothing
DealDiscount_computedFirst(c) ==
    IF c.originalPrice > c.price /\ c.price > 0
    THEN DiscountPercent(c.originalPrice, c.price)
    ELSE c.badge

\* the first-found discount of scrapeDealsFromHTML: the badge, else computed
\* from the two prices
DealDiscount(c) ==
    IF c.badge > 0 THEN c.badge
    ELSE IF c.originalPrice > c.price /\ c.price > 0
         THEN DiscountPercent(c.originalPrice, c.price)
         ELSE 0

\* deal.dealScore = calculateDealScore(deal)
ScoredDeal(deal) ==
    [deal EXCEPT !.dealScore = calculateDealScore_community(deal)]

\* the deal that scrapeDealsFromHTML builds from a card that passed its checks
CommunityDeal(c, source, asin, amazonUrl) ==
    ScoredDeal([id |-> IF asin # "" THEN asin
                       ELSE generateDealId(source.name, c.title, c.price),
                asin |-> asin,
                amazonUrl |-> amazonUrl,
                title |-> substring0(c.title, 250),
                price |-> c.price,
                originalPrice |-> c.originalPrice,
                discount |-> DealDiscount(c),
                upvotes |-> c.upvotes,
                rating10 |-> 0,
                reviewCount |-> 0,
                category |-> IF c.category # "" THEN c.category ELSE "Geral",
                normalizedCategory |->
                    normalizeCategory_community(c.title \o " " \o c.category),
                source |-> source.name,
                dealScore |-> 0])

\* what the callback of scrapeDealsFromHTML reads off a card: the title, its
\* key, the Amazon link ("" when the card has none) and the deal
CommunityFacts(c, source, amazonUrl) ==
    [title |-> c.title,
     titleKey |-> substring0(toLowerCase(c.title), 50),
     amazonUrl |-> amazonUrl,
     deal |-> IF amazonUrl = "" THEN NoCard
              ELSE CommunityDeal(c, source, extractAsin_community(amazonUrl),
                                 amazonUrl)]

\* the facts of every card under every source, computed once
CommunityCardFacts ==
    [s \in 1..Len(COMMUNITY_SOURCES) |->
        [k \in 1..Len(CommunityCards) |->
            CommunityFacts(CommunityCards[k], COMMUNITY_SOURCES[s],
                           IF includes(CommunityCards[k].href, "amazon")
                              \/ includes(CommunityCards[k].href, "amzn")
                           THEN CommunityCards[k].href ELSE "")]]

\* scrapeDealsFromHTML: the .each callback over the cards, from card i on
RECURSIVE scrapeDealsFromHTML(_, _, _, _)
scrapeDealsFromHTML(cards, i, deals, processedTitles) ==
    IF i > Len(cards) THEN deals
    ELSE
      LET c == cards[i]
      IN  IF Len(deals) >= MAX_PRODUCTS_PER_SOURCE
             \/ c.title = "" \/ Len(c.title) < MIN_TITLE_LENGTH
             \/ c.titleKey \in processedTitles
          THEN scrapeDealsFromHTML(cards, i + 1, deals, processedTitles)
          ELSE IF c.amazonUrl = ""
          THEN scrapeDealsFromHTML(cards, i + 1, deals,
                                   processedTitles \cup {c.titleKey})
          ELSE scrapeDealsFromHTML(cards, i + 1, Append(deals, c.deal),
                                   processedTitles \cup {c.titleKey})

\* the discount of the Amazon scraper and of the local script
ProductDiscount(c) ==
    LET computed == IF c.originalPrice > c.price /\ c.price > 0
                    THEN DiscountPercent(c.originalPrice, c.price)
                    ELSE 0
    IN  IF computed = 0 THEN c.badge ELSE computed

\* product.dealScore = calculateDealScore(product)
ScoredProduct(product) ==
    [product EXCEPT !.dealScore = calculateDealScore_amazon(product)]

\* the product that scrapeProductsFromHTML builds from a card
ScrapedProduct(c, asin, productCategory, source) ==
    ScoredProduct([id |-> asin,
                   asin |-> asin,
                   title |-> substring0(c.title, 250),
                   price |-> c.price,
                   originalPrice |-> c.originalPrice,
                   discount |-> ProductDiscount(c),
                   upvotes |-> 0,
                   rating10 |-> c.rating10,
                   reviewCount |-> c.reviewCount,
                   category |-> productCategory,
                   normalizedCategory |-> normalizeCategory_amazon(productCategory),
                   source |-> source,
                   dealScore |-> 0])

\* what the callback of scrapeProductsFromHTML reads off a card: the ASIN,
\* the title and the product
ProductFacts(c, asin, category, source) ==
    [asin |-> asin,
     title |-> c.title,
     product |-> ScrapedProduct(c, asin,
                                IF category = "general"
                                THEN normalizeCategory_amazon(c.title)
                                ELSE category,
                                source)]

\* the facts of every card under every source, computed once
ProductCardFacts ==
    [s \in 1..Len(SCRAPE_SOURCES) |->
        [k \in 1..Len(ProductCards) |->
            ProductFacts(ProductCards[k],
                         IF ProductCards[k].dataAsin # ""
                         THEN ProductCards[k].dataAsin
                         ELSE extractAsin_amazon(
                                  IF includes(ProductCards[k].href, "/dp/")
                                     \/ includes(ProductCards[k].href, "/product/")
                                  THEN ProductCards[k].href ELSE ""),
                         SCRAPE_SOURCES[s].category, SCRAPE_SOURCES[s].type)]]

\* scrapeProductsFromHTML: the .each callback over the cards, from card i on
RECURSIVE scrapeProductsFromHTML(_, _, _, _)
scrapeProductsFromHTML(cards, i, products, processedAsins) ==
    IF i > Len(cards) THEN products
    ELSE
      LET c == cards[i]
      IN  IF Len(products) >= MAX_PRODUCTS_PER_SOURCE_AMAZON
             \/ c.asin = "" \/ Len(c.asin) # ASIN_LENGTH
             \/ c.asin \in processedAsins
          THEN scrapeProductsFromHTML(cards, i + 1, products, processedAsins)
          ELSE IF c.title = "" \/ Len(c.title) < 5
          THEN scrapeProductsFromHTML(cards, i + 1, products,
                                      processedAsins \cup {c.asin})
          ELSE scrapeProductsFromHTML(cards, i + 1, Append(products, c.product),
                                      processedAsins \cup {c.asin})

\* dealScore: calculateDealScore(product)
ScoredLocal(product) ==
    [product EXCEPT !.dealScore = calculateDealScore_local(product)]

\* the product that scrapeProductsFromPage builds from a card
LocalProduct(c, asin, category, source) ==
    ScoredLocal([id |-> asin,
                 asin |-> asin,
                 title |-> c.title,
                 price |-> c.price,
                 originalPrice |-> c.originalPrice,
                 discount |-> ProductDiscount(c),
                 upvotes |-> 0,
                 rating10 |-> c.rating10,
                 reviewCount |-> c.reviewCount,
                 category |-> category,
                 normalizedCategory |-> normalizeCategory_local(c.title),
                 source |-> source,
                 dealScore |-> 0])

\* what the callback of scrapeProductsFromPage reads off a card
LocalFacts(c, asin, category, source) ==
    [asin |-> asin,
     title |-> c.title,
     product |-> LocalProduct(c, asin, category, source)]

\* the facts of every card under every source, computed once
LocalCardFacts ==
    [s \in 1..Len(SCRAPE_URLS) |->
        [k \in 1..Len(ProductCards) |->
            LocalFacts(ProductCards[k],
                       IF ProductCards[k].dataAsin # ""
                       THEN ProductCards[k].dataAsin
                       ELSE extractAsin_local(
                                IF includes(ProductCards[k].href, "/dp/")
                                THEN ProductCards[k].href ELSE ""),
                       SCRAPE_URLS[s].category, SCRAPE_URLS[s].type)]]

\* scrapeProductsFromPage: the forEach callback over the cards, from card i on
RECURSIVE scrapeProductsFromPage(_, _, _, _)
scrapeProductsFromPage(cards, i, products, processedAsins) ==
    IF i > Len(cards) THEN products
    ELSE
      LET c == cards[i]
      IN  IF Len(products) >= MAX_PRODUCTS_PER_PAGE_LOCAL
             \/ c.asin = "" \/ Len(c.asin) # ASIN_LENGTH
             \/ c.asin \in processedAsins
          THEN scrapeProductsFromPage(cards, i + 1, products, processedAsins)
          ELSE IF c.title = "" \/ Len(c.title) < 5
          THEN scrapeProductsFromPage(cards, i + 1, products,
                                      processedAsins \cup {c.asin})
          ELSE scrapeProductsFromPage(cards, i + 1, Append(products, c.product),
                                      processedAsins \cup {c.asin})

\* the cards of a page as the callback of pipeline p reads them under source s
CardsOf(p, s, page) ==
    [j \in 1..Len(page) |->
        CASE p = "community" -> CommunityCardFacts[s][page[j]]
          [] p = "amazon" -> ProductCardFacts[s][page[j]]
          [] p = "local" -> LocalCardFacts[s][page[j]]]

\* a scraper that forgets halfway what it has seen and how many listings it
\* holds; C25 tells it from ScrapeCards
ScrapeCards_forgetsHalfway(p, cards) ==
    LET half == Len(cards) \div 2
        first == SubSeq(cards, 1, half)
        rest == SubSeq(cards, half + 1, Len(cards))
    IN  CASE p = "community" ->
               scrapeDealsFromHTML(first, 1, <<>>, {})
               \o scrapeDealsFromHTML(rest, 1, <<>>, {})
          [] p = "amazon" ->
               scrapeProductsFromHTML(first, 1, <<>>, {})
               \o scrapeProductsFromHTML(rest, 1, <<>>, {})
          [] p = "local" ->
               scrapeProductsFromPage(first, 1, <<>>, {})
               \o scrapeProductsFromPage(rest, 1, <<>>, {})

\* the scraper of pipeline p on the cards of a page
ScrapeCards(p, cards) ==
    CASE p = "community" -> scrapeDealsFromHTML(cards, 1, <<>>, {})
      [] p = "amazon" -> scrapeProductsFromHTML(cards, 1, <<>>, {})
      [] p = "local" -> scrapeProductsFromPage(cards, 1, <<>>, {})

\* what the scraper of pipeline p extracts from the page fetched for source s
Scrape(p, s, page) == ScrapeCards(p, CardsOf(p, s, page))

-----------------------------------------------------------------------------
(* Post-processing: deduplicate, filter, sort, truncate.                   *)

\* a dedup loop in which the later of two equal scores wins; C7 tells it from
\* DedupLoop
RECURSIVE DedupLoop_lastWins(_, _, _, _)
DedupLoop_lastWins(deals, i, seen, byAsinOrId) ==
    IF i > Len(deals) THEN seen
    ELSE
      LET deal == deals[i]
          KeyOf(d) == IF byAsinOrId /\ d.asin = "" THEN d.id ELSE d.asin
          at == {j \in 1..Len(seen) : KeyOf(seen[j]) = KeyOf(deal)}
      IN  IF at = {}
          THEN DedupLoop_lastWins(deals, i + 1, Append(seen, deal), byAsinOrId)
          ELSE LET j == CHOOSE k \in at : TRUE
               IN  IF deal.dealScore >= seen[j].dealScore
                   THEN DedupLoop_lastWins(deals, i + 1,
                                           [seen EXCEPT ![j] = deal], byAsinOrId)
                   ELSE DedupLoop_lastWins(deals, i + 1, seen, byAsinOrId)

\* the Map of the dedup loops, as the sequence of its values in insertion
\* order: a new key is appended, Map.set on a present key replaces in place
RECURSIVE DedupLoop(_, _, _, _)
DedupLoop(deals, i, seen, byAsinOrId) ==
    IF i > Len(deals) THEN seen
    ELSE
      LET deal == deals[i]
          KeyOf(d) == IF byAsinOrId /\ d.asin = "" THEN d.id ELSE d.asin
          at == {j \in 1..Len(seen) : KeyOf(seen[j]) = KeyOf(deal)}
      IN  IF at = {}
          THEN DedupLoop(deals, i + 1, Append(seen, deal), byAsinOrId)
          ELSE LET j == CHOOSE k \in at : TRUE
               IN  IF deal.dealScore > seen[j].dealScore
                   THEN DedupLoop(deals, i + 1, [seen EXCEPT ![j] = deal], byAsinOrId)
                   ELSE DedupLoop(deals, i + 1, seen, byAsinOrId)

\* deduplicateDeals: key is deal.asin || deal.id
deduplicateDeals(deals) == DedupLoop(deals, 1, <<>>, TRUE)

\* deduplicateProducts: key is product.asin
deduplicateProducts(products) == DedupLoop(products, 1, <<>>, FALSE)

\* the dedup loop of main in the local script
deduplicateLocal(products) == DedupLoop(products, 1, <<>>, FALSE)

\* a filter that also drops a discount equal to the floor; C8 tells it from
\* KeepDeal
KeepDeal_strictFloor(d) ==
    /\ ~(d.title = "" \/ Len(d.title) < MIN_TITLE_LENGTH)
    /\ ~(d.price > 0 /\ (d.price < MIN_PRICE_COMMUNITY \/ d.price > MAX_PRICE_COMMUNITY))
    /\ ~(d.upvotes < MIN_UPVOTES)
    /\ ~(d.discount <= MIN_DISCOUNT)

\* the predicate of filterQualityDeals
KeepDeal(d) ==
    /\ ~(d.title = "" \/ Len(d.title) < MIN_TITLE_LENGTH)
    /\ ~(d.price > 0 /\ (d.price < MIN_PRICE_COMMUNITY \/ d.price > MAX_PRICE_COMMUNITY))
    /\ ~(d.upvotes < MIN_UPVOTES)
    /\ ~(d.discount < MIN_DISCOUNT)

\* the predicate of filterQualityProducts (Amazon scraper and local script)
KeepProduct(p) ==
    /\ ~(p.asin = "" \/ Len(p.asin) # ASIN_LENGTH)
    /\ ~(p.title = "" \/ Len(p.title) < MIN_TITLE_LENGTH)
    /\ ~(p.price < MIN_PRICE \/ p.price > MAX_PRICE)
    /\ ~(p.rating10 > 0 /\ p.rating10 < MIN_RATING)
    /\ ~(p.reviewCount > 0 /\ p.reviewCount < MIN_REVIEWS)

filterQualityDeals(deals) == SelectSeq(deals, KeepDeal)

filterQualityProducts(products) == SelectSeq(products, KeepProduct)

\* no sort at all; C10 tells it from sortByDealScore
sortByDealScore_asIs(deals) == deals

\* the place of deals[i] after Array.prototype.sort with the comparator
\* (a, b) => b.dealScore - a.dealScore: behind every higher score and, the
\* sort being stable, behind the earlier listings of its own score
SortedPlace(deals, i) ==
    1 + Cardinality({j \in 1..Len(deals) :
                        \/ deals[j].dealScore > deals[i].dealScore
                        \/ /\ deals[j].dealScore = deals[i].dealScore
                           /\ j < i})

\* deals.sort((a, b) => b.dealScore - a.dealScore)
sortByDealScore(deals) ==
    [k \in 1..Len(deals) |->
        deals[CHOOSE i \in 1..Len(deals) : SortedPlace(deals, i) = k]]

\* Array.prototype.slice(0, n)
slice0(s, n) ==
    IF n >= 0 THEN SubSeq(s, 1, Min(n, Len(s)))
    ELSE SubSeq(s, 1, Max(Len(s) + n, 0))

\* the dedup and filter steps of discoverCommunityDeals, discoverProducts and
\* main
Deduplicate(p, deals) ==
    CASE p = "community" -> deduplicateDeals(deals)
      [] p = "amazon" -> deduplicateProducts(deals)
      [] p = "local" -> deduplicateLocal(deals)

FilterQuality(p, deals) ==
    IF p = "community" THEN filterQualityDeals(deals)
    ELSE filterQualityProducts(deals)

-----------------------------------------------------------------------------
(* Pages and accumulated lists.                                            *)

\* the pages a source answers with in a session: sequences of card indexes
SessionPages(p) ==
    IF p = "community"
    THEN << <<>>, <<1>>, <<9, 12>> >>
    ELSE << <<>>, <<1>>, <<14, 16>> >>

\* Scrape on every session page of every source, computed once
SessionScraped ==
    [p \in Pipes |->
        [s \in 1..NumSources(p) |->
            [g \in 1..Len(SessionPages(p)) |-> Scrape(p, s, SessionPages(p)[g])]]]

\* sequences over S of length at most n
RECURSIVE SeqsUpTo(_, _)
SeqsUpTo(S, n) ==
    IF n = 0 THEN {<<>>}
    ELSE LET shorter == SeqsUpTo(S, n - 1)
         IN  shorter \cup {Append(q, x) : q \in shorter, x \in S}

\* the accumulated lists of a run whose first two sources answered with
\* pages of at most MaxListings cards together
AggLists(p) ==
    LET cardNumbers == 1..Len(Cards(p))
    IN  UNION {{Scrape(p, 1, a) \o Scrape(p, 2, b) :
                    b \in SeqsUpTo(cardNumbers, MaxListings - Len(a))} :
               a \in SeqsUpTo(cardNumbers, MaxListings)}

\* cards of one item at a lower and at a higher score, and cards of other
\* items, one of them at that higher score
TieCards(p) == IF p = "community" THEN {10, 12, 16, 17} ELSE {1, 7, 16, 20}

\* the accumulated lists of a run whose first two sources answered with
\* pages of at most MaxTieListings of these cards together
TieLists(p) ==
    UNION {{Scrape(p, 1, a) \o Scrape(p, 2, b) :
                    b \in SeqsUpTo(TieCards(p), MaxTieListings - Len(a))} :
               a \in SeqsUpTo(TieCards(p), MaxTieListings)}

\* the limits discover is called with
Limits == {0, 1, 2, DEFAULT_LIMIT}

-----------------------------------------------------------------------------
(* A discovery session.                                                    *)

NoHtml == [isNull |-> TRUE, page |-> 0, keyword |-> FALSE]
NoCall == [src |-> 0, outcomes |-> <<>>, count0 |-> 0, errors0 |-> <<>>,
           http0 |-> 0, result |-> "none"]
NoScore == [variant |-> "none", value |-> 0]
NoScoreIn == [discount |-> 0, upvotes |-> 0, rating10 |-> 0, reviewCount |-> 0,
              normalizedCategory |-> "other", asin |-> "", source |-> ""]

HasBudget(p) == p \in {"community", "amazon"}

\* the stats object and the locals as discover creates them
FreshRun ==
    /\ srcIdx = 1
    /\ attempt = 0
    /\ requestCount = 0
    /\ errors = <<>>
    /\ dealsFound = 0
    /\ html = NoHtml
    /\ allDeals = <<>>
    /\ call = NoCall
    /\ fetchLog = <<>>
    /\ httpCalls = 0
    /\ delayLog = <<>>
    /\ deduped = <<>>
    /\ filtered = <<>>
    /\ output = <<>>

NoScoring == scoreIn = NoScoreIn /\ scoreOut = NoScore

NoTrigger == [kind |-> "none", limitParam |-> "", save |-> FALSE]
NoResult == [variant |-> "none", value |-> 0]

\* no Cloud Function and no helper call is part of the run
NoReplay == [fixture |-> <<>>, clock |-> 0, runs |-> <<>>]

NoFunction ==
    /\ replay = NoReplay
    /\ trigger = NoTrigger
    /\ store = <<>>
    /\ batch = <<>>
    /\ arg = ""
    /\ result = NoResult

\* discoverCommunityDeals(limit), discoverProducts(limit) or main() is called
Init ==
    /\ clicks = <<>>
    /\ pipe \in Pipes
    /\ maxRequests \in (IF HasBudget(pipe) THEN Budgets(pipe) ELSE {0})
    /\ limit \in (IF HasBudget(pipe) THEN {1, DEFAULT_LIMIT} ELSE {DEFAULT_LIMIT})
    /\ pc = "loop"
    /\ FreshRun
    /\ NoScoring
    /\ NoFunction

\* the loop head lets the next source in: the budget check passed
EnterSource ==
    /\ pc = "loop"
    /\ srcIdx <= NumSources(pipe)
    /\ HasBudget(pipe) => requestCount < maxRequests
    /\ pc' = IF HasBudget(pipe) THEN "call" ELSE "goto"
    /\ call' = [src |-> srcIdx, outcomes |-> <<>>, count0 |-> requestCount,
                errors0 |-> errors, http0 |-> httpCalls, result |-> "pending"]
    /\ httpCalls' = IF HasBudget(pipe) THEN httpCalls ELSE httpCalls + 1
    /\ UNCHANGED <<clicks, replay, pipe, maxRequests, limit, srcIdx, attempt, requestCount,
                   errors, dealsFound, html, allDeals, fetchLog, delayLog,
                   deduped, filtered, output, scoreIn, scoreOut,
                   trigger, store, batch, arg, result>>

\* a skip that counts the refused call as a request; C2 tells it from FetchSkip
FetchSkip_counted ==
    /\ pc = "call"
    /\ requestCount >= maxRequests
    /\ requestCount' = requestCount + 1
    /\ html' = NoHtml
    /\ call' = [call EXCEPT !.result = "null"]
    /\ pc' = "ret"
    /\ UNCHANGED <<clicks, replay, pipe, maxRequests, limit, srcIdx, attempt, errors,
                   dealsFound, allDeals, fetchLog, httpCalls, delayLog,
                   deduped, filtered, output, scoreIn, scoreOut,
                   trigger, store, batch, arg, result>>

\* fetchWithRetry, entered at or above the ceiling: returns null at once
FetchSkip ==
    /\ pc = "call"
    /\ requestCount >= maxRequests
    /\ html' = NoHtml
    /\ call' = [call EXCEPT !.result = "null"]
    /\ pc' = "ret"
    /\ UNCHANGED <<clicks, replay, pipe, maxRequests, limit, srcIdx, attempt, requestCount,
                   errors, dealsFound, allDeals, fetchLog, httpCalls, delayLog,
                   deduped, filtered, output, scoreIn, scoreOut,
                   trigger, store, batch, arg, result>>

\* a first attempt that is not counted against the ceiling; C3 tells it from
\* FetchBegin
FetchBegin_uncounted ==
    /\ pc = "call"
    /\ requestCount < maxRequests
    /\ attempt' = 1
    /\ httpCalls' = httpCalls + 1
    /\ pc' = "inflight"
    /\ UNCHANGED <<clicks, replay, pipe, maxRequests, limit, srcIdx, requestCount, errors,
                   dealsFound, html, allDeals, call, fetchLog, delayLog,
                   deduped, filtered, output, scoreIn, scoreOut,
                   trigger, store, batch, arg, result>>

\* fetchWithRetry, entered below the ceiling: attempt 1 issues its request
FetchBegin ==
    /\ pc = "call"
    /\ requestCount < maxRequests
    /\ attempt' = 1
    /\ requestCount' = requestCount + 1
    /\ httpCalls' = httpCalls + 1
    /\ pc' = "inflight"
    /\ UNCHANGED <<clicks, replay, pipe, maxRequests, limit, srcIdx, errors, dealsFound, html,
                   allDeals, call, fetchLog, delayLog, deduped, filtered,
                   output, scoreIn, scoreOut,
                   trigger, store, batch, arg, result>>

\* a response handler that never scans the body; C5 tells it from AttemptBody
AttemptBody_noScan ==
    \E page \in 1..Len(SessionPages(pipe)), keyword \in BOOLEAN :
        /\ pc = "inflight"
        /\ html' = [isNull |-> FALSE, page |-> page, keyword |-> keyword]
        /\ call' = [call EXCEPT
                      !.outcomes = Append(@, IF keyword THEN "keyword" ELSE "ok"),
                      !.result = "body"]
        /\ pc' = "ret"
        /\ UNCHANGED <<clicks, replay, pipe, maxRequests, limit, srcIdx, attempt, requestCount,
                       errors, dealsFound, allDeals, fetchLog, httpCalls,
                       delayLog, deduped, filtered, output, scoreIn, scoreOut,
                       trigger, store, batch, arg, result>>

\* the response is 2xx and its text is read; keyword tells whether the body
\* holds "captcha", "robot" or "automated"
AttemptBody ==
    \E page \in 1..Len(SessionPages(pipe)), keyword \in BOOLEAN :
        /\ pc = "inflight"
        /\ IF pipe = "amazon" /\ keyword
           THEN /\ errors' = Append(errors, [src |-> call.src, kind |-> "bot"])
                /\ call' = [call EXCEPT !.outcomes = Append(@, "keyword")]
                /\ pc' = "cooldown"
                /\ html' = html
           ELSE /\ html' = [isNull |-> FALSE, page |-> page, keyword |-> keyword]
                /\ call' = [call EXCEPT
                              !.outcomes = Append(@, IF keyword THEN "keyword" ELSE "ok"),
                              !.result = "body"]
                /\ pc' = "ret"
                /\ errors' = errors
        /\ UNCHANGED <<clicks, replay, pipe, maxRequests, limit, srcIdx, attempt, requestCount,
                       dealsFound, allDeals, fetchLog, httpCalls, delayLog,
                       deduped, filtered, output, scoreIn, scoreOut,
                       trigger, store, batch, arg, result>>

\* a catch block that records every failed attempt; C4 tells it from
\* AttemptFail
AttemptFail_logsEach ==
    /\ pc = "inflight"
    /\ errors' = Append(errors, [src |-> call.src, kind |-> "failed"])
    /\ IF attempt < MAX_RETRIES
       THEN /\ pc' = "retrySleep"
            /\ call' = [call EXCEPT !.outcomes = Append(@, "fail")]
            /\ html' = html
       ELSE /\ html' = NoHtml
            /\ call' = [call EXCEPT !.outcomes = Append(@, "fail"),
                                    !.result = "null"]
            /\ pc' = "ret"
    /\ UNCHANGED <<clicks, replay, pipe, maxRequests, limit, srcIdx, attempt, requestCount,
                   dealsFound, allDeals, fetchLog, httpCalls, delayLog, deduped,
                   filtered, output, scoreIn, scoreOut,
                   trigger, store, batch, arg, result>>

\* the attempt throws: timeout, non-2xx status or network error
AttemptFail ==
    /\ pc = "inflight"
    /\ IF attempt < MAX_RETRIES
       THEN /\ pc' = "retrySleep"
            /\ call' = [call EXCEPT !.outcomes = Append(@, "fail")]
            /\ UNCHANGED <<errors, html>>
       ELSE /\ errors' = Append(errors, [src |-> call.src, kind |-> "failed"])
            /\ html' = NoHtml
            /\ call' = [call EXCEPT !.outcomes = Append(@, "fail"),
                                    !.result = "null"]
            /\ pc' = "ret"
    /\ UNCHANGED <<clicks, replay, pipe, maxRequests, limit, srcIdx, attempt, requestCount,
                   dealsFound, allDeals, fetchLog, httpCalls, delayLog, deduped,
                   filtered, output, scoreIn, scoreOut,
                   trigger, store, batch, arg, result>>

\* a retry that is not counted; C29 tells it from RetryWake
RetryWake_uncounted ==
    /\ pc = "retrySleep"
    /\ attempt' = attempt + 1
    /\ requestCount' = requestCount
    /\ httpCalls' = httpCalls + 1
    /\ pc' = "inflight"
    /\ UNCHANGED <<clicks, replay, pipe, maxRequests, limit, srcIdx, errors, dealsFound, html,
                   allDeals, call, fetchLog, delayLog, deduped, filtered,
                   output, scoreIn, scoreOut,
                   trigger, store, batch, arg, result>>

\* sleep(RETRY_DELAY_MS * attempt) is over: the next attempt issues its request
RetryWake ==
    /\ pc = "retrySleep"
    /\ attempt' = attempt + 1
    /\ requestCount' = requestCount + 1
    /\ httpCalls' = httpCalls + 1
    /\ pc' = "inflight"
    /\ UNCHANGED <<clicks, replay, pipe, maxRequests, limit, srcIdx, errors, dealsFound, html,
                   allDeals, call, fetchLog, delayLog, deduped, filtered,
                   output, scoreIn, scoreOut,
                   trigger, store, batch, arg, result>>

\* sleep(RETRY_DELAY_MS * 2) after bot detection is over: return null
CooldownDone ==
    /\ pc = "cooldown"
    /\ html' = NoHtml
    /\ call' = [call EXCEPT !.result = "null"]
    /\ pc' = "ret"
    /\ UNCHANGED <<clicks, replay, pipe, maxRequests, limit, srcIdx, attempt, requestCount,
                   errors, dealsFound, allDeals, fetchLog, httpCalls, delayLog,
                   deduped, filtered, output, scoreIn, scoreOut,
                   trigger, store, batch, arg, result>>

\* whether the loop body ends with randomDelay
DelayAfterSource ==
    CASE pipe = "community" -> requestCount < maxRequests
      [] pipe = "amazon"    -> requestCount < maxRequests
                               /\ srcIdx < NumSources(pipe)
      [] pipe = "local"     -> srcIdx < NumSources(pipe)

\* a loop body that gives the run up when a source yields no html; C6 tells
\* it from AfterFetch
AfterFetch_stopsOnNull ==
    /\ pc = "ret"
    /\ fetchLog' = Append(fetchLog, call)
    /\ IF html.isNull
       THEN /\ pc' = "aborted"
            /\ UNCHANGED <<allDeals, dealsFound, delayLog, srcIdx>>
       ELSE /\ allDeals' = allDeals \o SessionScraped[pipe][srcIdx][html.page]
            /\ dealsFound' = dealsFound
                             + Len(SessionScraped[pipe][srcIdx][html.page])
            /\ pc' = "loop"
            /\ delayLog' = delayLog
            /\ srcIdx' = srcIdx + 1
    /\ UNCHANGED <<clicks, replay, pipe, maxRequests, limit, attempt, requestCount, errors,
                   html, call, httpCalls, deduped, filtered, output, scoreIn,
                   scoreOut,
                   trigger, store, batch, arg, result>>

\* a loop body that issues the request of the next source before it has
\* scraped the html of this one; C15 tells it from AfterFetch
AfterFetch_prefetch ==
    /\ pc = "ret"
    /\ IF srcIdx < NumSources(pipe) /\ requestCount < maxRequests
       THEN /\ srcIdx' = srcIdx + 1
            /\ call' = [src |-> srcIdx + 1, outcomes |-> <<>>,
                        count0 |-> requestCount, errors0 |-> errors,
                        http0 |-> httpCalls, result |-> "pending"]
            /\ attempt' = 1
            /\ requestCount' = requestCount + 1
            /\ httpCalls' = httpCalls + 1
            /\ pc' = "inflight"
            /\ UNCHANGED <<allDeals, dealsFound, fetchLog>>
       ELSE /\ srcIdx' = srcIdx + 1
            /\ pc' = "loop"
            /\ fetchLog' = Append(fetchLog, call)
            /\ allDeals' = allDeals \o (IF html.isNull THEN <<>>
                              ELSE SessionScraped[pipe][srcIdx][html.page])
            /\ dealsFound' = Len(allDeals')
            /\ UNCHANGED <<call, attempt, requestCount, httpCalls>>
    /\ UNCHANGED <<clicks, replay, pipe, maxRequests, limit, errors, html, delayLog, deduped,
                   filtered, output, scoreIn, scoreOut,
                   trigger, store, batch, arg, result>>

\* fetchWithRetry returned: scrape the html if there is one, then delay or
\* go to the next source
AfterFetch ==
    /\ pc = "ret"
    /\ LET deals == IF html.isNull THEN <<>>
                    ELSE SessionScraped[pipe][srcIdx][html.page]
       IN  /\ allDeals' = allDeals \o deals
           /\ dealsFound' = dealsFound + Len(deals)
    /\ fetchLog' = Append(fetchLog, call)
    /\ IF DelayAfterSource
       THEN /\ pc' = "delay"
            /\ delayLog' = Append(delayLog, srcIdx)
            /\ srcIdx' = srcIdx
       ELSE /\ pc' = "loop"
            /\ delayLog' = delayLog
            /\ srcIdx' = srcIdx + 1
    /\ UNCHANGED <<clicks, replay, pipe, maxRequests, limit, attempt, requestCount, errors,
                   html, call, httpCalls, deduped, filtered, output, scoreIn,
                   scoreOut,
                   trigger, store, batch, arg, result>>

\* the local script: page.goto, the scrolling and scrapeProductsFromPage went
\* through
LocalPageOk ==
    \E page \in 1..Len(SessionPages(pipe)) :
        /\ pc = "goto"
        /\ LET products == SessionScraped[pipe][srcIdx][page]
           IN  /\ allDeals' = allDeals \o products
               /\ dealsFound' = dealsFound + Len(products)
        /\ call' = [call EXCEPT !.outcomes = <<"ok">>, !.result = "body"]
        /\ fetchLog' = Append(fetchLog, call')
        /\ IF DelayAfterSource
           THEN /\ pc' = "delay"
                /\ delayLog' = Append(delayLog, srcIdx)
                /\ srcIdx' = srcIdx
           ELSE /\ pc' = "loop"
                /\ delayLog' = delayLog
                /\ srcIdx' = srcIdx + 1
        /\ UNCHANGED <<clicks, replay, pipe, maxRequests, limit, attempt, requestCount, errors,
                       html, httpCalls, deduped, filtered, output, scoreIn,
                       scoreOut,
                       trigger, store, batch, arg, result>>

\* the local script: page.goto or the page evaluation throws; the catch logs
\* it and the loop goes on without a delay
LocalPageFail ==
    /\ pc = "goto"
    /\ call' = [call EXCEPT !.outcomes = <<"fail">>, !.result = "null"]
    /\ fetchLog' = Append(fetchLog, call')
    /\ srcIdx' = srcIdx + 1
    /\ pc' = "loop"
    /\ UNCHANGED <<clicks, replay, pipe, maxRequests, limit, attempt, requestCount, errors,
                   dealsFound, html, allDeals, httpCalls, delayLog, deduped,
                   filtered, output, scoreIn, scoreOut,
                   trigger, store, batch, arg, result>>

\* randomDelay is over
DelayDone ==
    /\ pc = "delay"
    /\ srcIdx' = srcIdx + 1
    /\ pc' = "loop"
    /\ UNCHANGED <<clicks, replay, pipe, maxRequests, limit, attempt, requestCount, errors,
                   dealsFound, html, allDeals, call, fetchLog, httpCalls,
                   delayLog, deduped, filtered, output, scoreIn, scoreOut,
                   trigger, store, batch, arg, result>>

\* post-processing that filters the accumulated list before it deduplicates
LoopExit_filterFirst ==
    /\ pc = "loop"
    /\ \/ srcIdx > NumSources(pipe)
       \/ HasBudget(pipe) /\ requestCount >= maxRequests
    /\ \E quality \in {FilterQuality(pipe, allDeals)} :
          \E unique \in {Deduplicate(pipe, quality)} :
              /\ deduped' = unique
              /\ filtered' = unique
              /\ output' = slice0(sortByDealScore(unique), limit)
    /\ pc' = "done"
    /\ UNCHANGED <<clicks, replay, pipe, maxRequests, limit, srcIdx, attempt, requestCount,
                   errors, dealsFound, html, allDeals, call, fetchLog,
                   httpCalls, delayLog, scoreIn, scoreOut,
                   trigger, store, batch, arg, result>>

\* the loop is left, at its end or by the budget break; post-processing runs
\* and discover returns
LoopExit ==
    /\ pc = "loop"
    /\ \/ srcIdx > NumSources(pipe)
       \/ HasBudget(pipe) /\ requestCount >= maxRequests
    /\ \E unique \in {Deduplicate(pipe, allDeals)} :
          \E quality \in {FilterQuality(pipe, unique)} :
              /\ deduped' = unique
              /\ filtered' = quality
              /\ output' = slice0(sortByDealScore(quality), limit)
    /\ pc' = "done"
    /\ UNCHANGED <<clicks, replay, pipe, maxRequests, limit, srcIdx, attempt, requestCount,
                   errors, dealsFound, html, allDeals, call, fetchLog,
                   httpCalls, delayLog, scoreIn, scoreOut,
                   trigger, store, batch, arg, result>>

\* FetchSkip is left out: the loop head never calls fetchWithRetry at the ceiling
Next ==
    \/ EnterSource
    \/ FetchBegin
    \/ AttemptBody
    \/ AttemptFail
    \/ RetryWake
    \/ CooldownDone
    \/ AfterFetch
    \/ LocalPageOk
    \/ LocalPageFail
    \/ DelayDone
    \/ LoopExit

Spec == Init /\ [][Next]_vars

\* the run is single-threaded and every await resolves: a step is taken
\* whenever one is possible
LiveSpec == Spec /\ WF_vars(Next)

-----------------------------------------------------------------------------
(* fetchWithRetry on its own: one call, entered with any stats object.     *)

InitFetch ==
    /\ clicks = <<>>
    /\ pipe \in {"community", "amazon"}
    /\ maxRequests \in Budgets(pipe)
    /\ limit = DEFAULT_LIMIT
    /\ pc = "call"
    /\ srcIdx \in 1..NumSources(pipe)
    /\ attempt = 0
    /\ requestCount \in 0..(maxRequests + MAX_RETRIES - 1)
    /\ errors \in {<<>>, <<[src |-> 1, kind |-> "failed"]>>}
    /\ dealsFound = 0
    /\ html = NoHtml
    /\ allDeals = <<>>
    /\ httpCalls = requestCount
    /\ call = [src |-> srcIdx, outcomes |-> <<>>, count0 |-> requestCount,
               errors0 |-> errors, http0 |-> httpCalls, result |-> "pending"]
    /\ fetchLog = <<>>
    /\ delayLog = <<>>
    /\ deduped = <<>>
    /\ filtered = <<>>
    /\ output = <<>>
    /\ NoScoring
    /\ NoFunction

NextFetch ==
    \/ FetchSkip
    \/ FetchBegin
    \/ AttemptBody
    \/ AttemptFail
    \/ RetryWake
    \/ CooldownDone

SpecFetch == InitFetch /\ [][NextFetch]_vars

-----------------------------------------------------------------------------
(* Post-processing on its own: the run at the end of its loop, with any    *)
(* accumulated list the scrapers produce from at most MaxListings cards of *)
(* the first two sources.  The counters, which post-processing does not    *)
(* read, are as at the start of the run.                                   *)

InitAgg ==
    /\ clicks = <<>>
    /\ pipe \in Pipes
    /\ maxRequests \in (IF HasBudget(pipe) THEN {MaxBudget} ELSE {0})
    /\ limit \in (IF HasBudget(pipe) THEN Limits ELSE {DEFAULT_LIMIT})
    /\ pc = "loop"
    /\ srcIdx = NumSources(pipe) + 1
    /\ attempt = 0
    /\ requestCount = 0
    /\ errors = <<>>
    /\ dealsFound = 0
    /\ html = NoHtml
    /\ allDeals \in AggLists(pipe)
    /\ call = NoCall
    /\ fetchLog = <<>>
    /\ httpCalls = 0
    /\ delayLog = <<>>
    /\ deduped = <<>>
    /\ filtered = <<>>
    /\ output = <<>>
    /\ NoScoring
    /\ NoFunction

NextAgg == LoopExit

SpecAgg == InitAgg /\ [][NextAgg]_vars

\* post-processing on the lists of TieLists
InitTie ==
    /\ clicks = <<>>
    /\ pipe \in Pipes
    /\ maxRequests = IF HasBudget(pipe) THEN MaxBudget ELSE 0
    /\ limit = DEFAULT_LIMIT
    /\ pc = "loop"
    /\ srcIdx = NumSources(pipe) + 1
    /\ attempt = 0
    /\ requestCount = 0
    /\ errors = <<>>
    /\ dealsFound = 0
    /\ html = NoHtml
    /\ allDeals \in TieLists(pipe)
    /\ call = NoCall
    /\ fetchLog = <<>>
    /\ httpCalls = 0
    /\ delayLog = <<>>
    /\ deduped = <<>>
    /\ filtered = <<>>
    /\ output = <<>>
    /\ NoScoring
    /\ NoFunction

SpecTie == InitTie /\ [][NextAgg]_vars

-----------------------------------------------------------------------------
(* calculateDealScore on its own.                                          *)

ScoreInputs ==
    [discount : {0, 5, 10, 40, 150},
     upvotes : {-3, 0, 5, 99, 500},
     rating10 : {0, 29, 45, 50, 99},
     reviewCount : {0, 9, 100, 5000, 20000},
     normalizedCategory : Categories,
     asin : {"", "B0AAAAAAA1"},
     source : {"deals", "bestsellers"}]

InitScore ==
    /\ clicks = <<>>
    /\ pipe = "community"
    /\ maxRequests = 0
    /\ limit = DEFAULT_LIMIT
    /\ pc = "score"
    /\ FreshRun
    /\ scoreIn \in ScoreInputs
    /\ scoreOut = NoScore
    /\ NoFunction

ScoreCommunity ==
    /\ pc = "score"
    /\ scoreOut' = [variant |-> "community",
                    value |-> calculateDealScore_community(scoreIn)]
    /\ pc' = "scored"
    /\ UNCHANGED <<clicks, replay, pipe, maxRequests, limit, srcIdx, attempt, requestCount,
                   errors, dealsFound, html, allDeals, call, fetchLog,
                   httpCalls, delayLog, deduped, filtered, output, scoreIn,
                   trigger, store, batch, arg, result>>

ScoreAmazon ==
    /\ pc = "score"
    /\ scoreOut' = [variant |-> "amazon",
                    value |-> calculateDealScore_amazon(scoreIn)]
    /\ pc' = "scored"
    /\ UNCHANGED <<clicks, replay, pipe, maxRequests, limit, srcIdx, attempt, requestCount,
                   errors, dealsFound, html, allDeals, call, fetchLog,
                   httpCalls, delayLog, deduped, filtered, output, scoreIn,
                   trigger, store, batch, arg, result>>

ScoreLocal ==
    /\ pc = "score"
    /\ scoreOut' = [variant |-> "local",
                    value |-> calculateDealScore_local(scoreIn)]
    /\ pc' = "scored"
    /\ UNCHANGED <<clicks, replay, pipe, maxRequests, limit, srcIdx, attempt, requestCount,
                   errors, dealsFound, html, allDeals, call, fetchLog,
                   httpCalls, delayLog, deduped, filtered, output, scoreIn,
                   trigger, store, batch, arg, result>>

NextScore ==
    \/ ScoreCommunity
    \/ ScoreAmazon
    \/ ScoreLocal

SpecScore == InitScore /\ [][NextScore]_vars

-----------------------------------------------------------------------------
(* The callers of discover: fetchProductsScheduled, fetchProductsManual    *)
(* and main of the local script, with the products collection they write   *)
(* to.  The session loop is taken as one step that yields the accumulated  *)
(* list; post-processing is LoopExit as above.  An absent value (null,     *)
(* undefined) of a number field is 0 and of a string field is "".          *)

DigitChars == {"0", "1", "2", "3", "4", "5", "6", "7", "8", "9"}

DigitValue(c) ==
    CASE c = "0" -> 0 [] c = "1" -> 1 [] c = "2" -> 2 [] c = "3" -> 3
      [] c = "4" -> 4 [] c = "5" -> 5 [] c = "6" -> 6 [] c = "7" -> 7
      [] c = "8" -> 8 [] c = "9" -> 9

\* a JavaScript number of the functions: an integer or NaN
Num(n) == [nan |-> FALSE, n |-> n]
NaN == [nan |-> TRUE, n |-> 0]

\* index of the first character of s, from i on, that is not a blank
RECURSIVE SkipBlanks(_, _)
SkipBlanks(s, i) ==
    IF i <= Len(s) /\ SubSeq(s, i, i) = " " THEN SkipBlanks(s, i + 1) ELSE i

\* value of the run of digits of s that starts at i, after acc
RECURSIVE DigitRun(_, _, _)
DigitRun(s, i, acc) ==
    IF i > Len(s) \/ SubSeq(s, i, i) \notin DigitChars THEN acc
    ELSE DigitRun(s, i + 1, acc * 10 + DigitValue(SubSeq(s, i, i)))

\* the digits of parseInt's input, once blanks and sign are read
ParseSigned(s, i, negative) ==
    IF i > Len(s) \/ SubSeq(s, i, i) \notin DigitChars THEN NaN
    ELSE Num((IF negative THEN -1 ELSE 1) * DigitRun(s, i, 0))

\* the sign of parseInt's input at i, then its digits
ParseFrom(s, i) ==
    IF i <= Len(s) /\ SubSeq(s, i, i) \in {"-", "+"}
    THEN ParseSigned(s, i + 1, SubSeq(s, i, i) = "-")
    ELSE ParseSigned(s, i, FALSE)

\* parseInt(s, 10)
parseInt(s) == ParseFrom(s, SkipBlanks(s, 1))

\* Math.min on two numbers
MathMin(a, b) == IF a.nan \/ b.nan THEN NaN ELSE Num(Min(a.n, b.n))

\* the integer Array.prototype.slice makes of its end argument
ToIntegerOrInfinity(x) == IF x.nan THEN 0 ELSE x.n

MANUAL_LIMIT_CAP == 50

\* Math.min(limit, 50), limit read off the query string
ManualLimit(limitParam) ==
    MathMin(IF limitParam # "" THEN parseInt(limitParam) ELSE Num(DEFAULT_LIMIT),
            Num(MANUAL_LIMIT_CAP))

\* the limit a caller hands to discover (main slices at 20 itself)
LimitArg(t) ==
    IF t.kind = "manual" THEN ManualLimit(t.limitParam) ELSE Num(DEFAULT_LIMIT)

\* values of the limit query parameter; "" is a request without one
LimitParams == {"", "0", "1", "100", "-1", "abc", " 2x"}

NoLocals == [i |-> 0, newCount |-> 0, updateCount |-> 0]

\* the runs: the scheduled function, the local script, and manual requests
Triggers ==
    {[kind |-> "scheduled", method |-> "", limitParam |-> "", save |-> TRUE],
     [kind |-> "upload", method |-> "", limitParam |-> "", save |-> TRUE],
     [kind |-> "manual", method |-> "PUT", limitParam |-> "", save |-> TRUE],
     [kind |-> "manual", method |-> "POST", limitParam |-> "", save |-> FALSE]}
    \cup [kind : {"manual"}, method : {"GET"}, limitParam : LimitParams,
          save : {TRUE}]

PARTNER_TAG == "ihuofertas-20"

\* toFirestoreProduct
toFirestoreProduct(deal) ==
    [id |-> deal.id,
     asin |-> deal.asin,
     title |-> deal.title,
     price |-> deal.price,
     originalPrice |-> deal.originalPrice,
     discount |-> deal.discount,
     affiliateLink |-> IF deal.asin # ""
                       THEN "https://www.amazon.com.br/dp/" \o deal.asin
                            \o "?tag=" \o PARTNER_TAG
                       ELSE deal.amazonUrl,
     amazonUrl |-> deal.amazonUrl,
     category |-> deal.normalizedCategory,
     originalCategory |-> deal.category,
     upvotes |-> deal.upvotes,
     dealScore |-> deal.dealScore,
     source |-> deal.source,
     fetchedAt |-> "now",
     posted |-> FALSE,
     clicks |-> 0]

\* the fields fetchProductsScheduled refreshes on an existing document
ScheduledRefresh(deal) ==
    [price |-> deal.price,
     originalPrice |-> deal.originalPrice,
     discount |-> deal.discount,
     upvotes |-> deal.upvotes,
     dealScore |-> deal.dealScore,
     fetchedAt |-> "now"]

\* productData of uploadToFirebase with posted and clicks
UploadedProduct(product) ==
    [asin |-> product.asin,
     title |-> product.title,
     price |-> product.price,
     originalPrice |-> product.originalPrice,
     discount |-> product.discount,
     affiliateLink |-> "https://www.amazon.com.br/dp/" \o product.asin
                       \o "?tag=" \o PARTNER_TAG,
     category |-> product.normalizedCategory,
     rating10 |-> product.rating10,
     reviewCount |-> product.reviewCount,
     dealScore |-> product.dealScore,
     source |-> product.source,
     fetchedAt |-> "now",
     posted |-> FALSE,
     clicks |-> 0]

\* the fields uploadToFirebase refreshes on an existing document
UploadRefresh(product) ==
    [price |-> product.price,
     originalPrice |-> product.originalPrice,
     discount |-> product.discount,
     dealScore |-> product.dealScore,
     fetchedAt |-> "now"]

\* deal.asin || deal.id; the local script uses product.asin
DocId(t, deal) ==
    IF t.kind = "upload" \/ deal.asin # "" THEN deal.asin ELSE deal.id

\* a document written by an earlier run, since posted, clicked and given a
\* creative
StoredDoc(id) ==
    [id |-> id,
     asin |-> id,
     title |-> "Notebook Dell Inspiron 15 (oferta anterior)",
     price |-> 90,
     originalPrice |-> 0,
     discount |-> 0,
     affiliateLink |-> "https://www.amazon.com.br/dp/" \o id \o "?tag=antiga-20",
     category |-> "other",
     upvotes |-> 1,
     dealScore |-> 10,
     source |-> "Pelando",
     fetchedAt |-> "earlier",
     posted |-> TRUE,
     clicks |-> 3,
     creativeUrl |-> "https://storage.googleapis.com/creatives/" \o id \o ".jpg"]

\* ids of the documents the collection may hold when a run starts
StoredIds == {"B0AAAAAAA1", "B0AAAAAAA3"}

Stores == {[id \in S |-> StoredDoc(id)] : S \in SUBSET StoredIds}

\* Firestore update: merge the given fields into the document
MergeFields(doc, fields) ==
    [f \in DOMAIN doc \cup DOMAIN fields |->
        IF f \in DOMAIN fields THEN fields[f] ELSE doc[f]]

\* one write of a committed batch on the collection
ApplyWrite(st, w) ==
    [id \in DOMAIN st \cup {w.id} |->
        IF id # w.id THEN st[id]
        ELSE IF w.op = "set" THEN w.data
        ELSE MergeFields(st[id], w.data)]

\* batch.commit(): the queued writes, in order, from write i on
RECURSIVE ApplyWrites(_, _, _)
ApplyWrites(st, writes, i) ==
    IF i > Len(writes) THEN st
    ELSE ApplyWrites(ApplyWrite(st, writes[i]), writes, i + 1)

\* a run that sets the whole document whether or not one exists; C16 tells
\* it from QueuedWrite
QueuedWrite_alwaysSet(t, deal, exists) ==
    <<[op |-> "set", id |-> DocId(t, deal),
       data |-> IF t.kind = "upload" THEN UploadedProduct(deal)
                ELSE toFirestoreProduct(deal)]>>

\* the write a run queues for a deal, <<>> when it queues none
QueuedWrite(t, deal, exists) ==
    CASE t.kind = "scheduled" ->
            IF exists
            THEN <<[op |-> "update", id |-> DocId(t, deal),
                    data |-> ScheduledRefresh(deal)]>>
            ELSE <<[op |-> "set", id |-> DocId(t, deal),
                    data |-> toFirestoreProduct(deal)]>>
      [] t.kind = "manual" ->
            IF exists THEN <<>>
            ELSE <<[op |-> "set", id |-> DocId(t, deal),
                    data |-> toFirestoreProduct(deal)]>>
      [] t.kind = "upload" ->
            IF exists
            THEN <<[op |-> "update", id |-> DocId(t, deal),
                    data |-> UploadRefresh(deal)]>>
            ELSE <<[op |-> "set", id |-> DocId(t, deal),
                    data |-> UploadedProduct(deal)]>>

PipeOf(t) == IF t.kind = "upload" THEN "local" ELSE "community"

InitStore ==
    /\ clicks = <<>>
    /\ trigger \in Triggers
    /\ pipe = PipeOf(trigger)
    /\ maxRequests = IF HasBudget(pipe) THEN MAX_REQUESTS ELSE 0
    /\ limit = DEFAULT_LIMIT
    /\ pc = "trigger"
    /\ FreshRun
    /\ NoScoring
    /\ replay = NoReplay
    /\ store \in Stores
    /\ batch = <<>>
    /\ arg = NoLocals
    /\ result = NoResult

\* fetchProductsManual answers 405 to a method other than POST and GET
MethodNotAllowed ==
    /\ pc = "trigger"
    /\ trigger.kind = "manual"
    /\ trigger.method \notin {"POST", "GET"}
    /\ result' = [variant |-> "status", value |-> 405]
    /\ pc' = "responded"
    /\ UNCHANGED <<clicks, replay, pipe, maxRequests, limit, srcIdx, attempt, requestCount,
                   errors, dealsFound, html, allDeals, call, fetchLog,
                   httpCalls, delayLog, deduped, filtered, output, scoreIn,
                   scoreOut, trigger, store, batch, arg>>

\* discover is called with the caller's limit and its loop runs to the end,
\* leaving some accumulated list
DiscoverCalled ==
    /\ pc = "trigger"
    /\ trigger.kind = "manual" => trigger.method \in {"POST", "GET"}
    /\ limit' = ToIntegerOrInfinity(LimitArg(trigger))
    /\ allDeals' \in AggLists(pipe)
    /\ dealsFound' = Len(allDeals')
    /\ srcIdx' = NumSources(pipe) + 1
    /\ pc' = "loop"
    /\ UNCHANGED <<clicks, replay, pipe, maxRequests, attempt, requestCount, errors, html,
                   call, fetchLog, httpCalls, delayLog, deduped, filtered,
                   output, scoreIn, scoreOut, trigger, store, batch, arg,
                   result>>

\* whether the caller goes on to write what discover returned
Saves(t, deals) ==
    CASE t.kind = "scheduled" -> Len(deals) # 0
      [] t.kind = "manual"    -> t.save /\ Len(deals) > 0
      [] t.kind = "upload"    -> TRUE

\* discover returned and nothing is written: the scheduled function returns,
\* the manual one answers
NothingSaved ==
    /\ pc = "done"
    /\ trigger.kind # "none"
    /\ ~Saves(trigger, output)
    /\ result' = IF trigger.kind = "manual"
                 THEN [variant |-> "status", value |-> 200]
                 ELSE result
    /\ pc' = "responded"
    /\ UNCHANGED <<clicks, replay, pipe, maxRequests, limit, srcIdx, attempt, requestCount,
                   errors, dealsFound, html, allDeals, call, fetchLog,
                   httpCalls, delayLog, deduped, filtered, output, scoreIn,
                   scoreOut, trigger, store, batch, arg>>

\* const batch = db.batch()
BatchBegin ==
    /\ pc = "done"
    /\ trigger.kind # "none"
    /\ Saves(trigger, output)
    /\ batch' = <<>>
    /\ arg' = [NoLocals EXCEPT !.i = 1]
    /\ pc' = "persist"
    /\ UNCHANGED <<clicks, replay, pipe, maxRequests, limit, srcIdx, attempt, requestCount,
                   errors, dealsFound, html, allDeals, call, fetchLog,
                   httpCalls, delayLog, deduped, filtered, output, scoreIn,
                   scoreOut, trigger, store, result>>

\* one iteration of the loop over the deals: docRef.get(), then the write
\* it queues on the batch
PersistDeal ==
    /\ pc = "persist"
    /\ arg.i <= Len(output)
    /\ \E exists \in {DocId(trigger, output[arg.i]) \in DOMAIN store} :
          \E queued \in {QueuedWrite(trigger, output[arg.i], exists)} :
              /\ batch' = batch \o queued
              /\ arg' = [i |-> arg.i + 1,
                         newCount |-> arg.newCount
                                      + (IF exists THEN 0 ELSE 1),
                         updateCount |-> arg.updateCount
                                         + (IF exists /\ queued # <<>>
                                            THEN 1 ELSE 0)]
    /\ UNCHANGED <<clicks, replay, pipe, maxRequests, limit, pc, srcIdx, attempt,
                   requestCount, errors, dealsFound, html, allDeals, call,
                   fetchLog, httpCalls, delayLog, deduped, filtered, output,
                   scoreIn, scoreOut, trigger, store, result>>

\* await batch.commit() after the loop; the manual function then answers
BatchCommit ==
    /\ pc = "persist"
    /\ arg.i > Len(output)
    /\ store' = ApplyWrites(store, batch, 1)
    /\ result' = IF trigger.kind = "manual"
                 THEN [variant |-> "status", value |-> 200]
                 ELSE result
    /\ pc' = "responded"
    /\ UNCHANGED <<clicks, replay, pipe, maxRequests, limit, srcIdx, attempt, requestCount,
                   errors, dealsFound, html, allDeals, call, fetchLog,
                   httpCalls, delayLog, deduped, filtered, output, scoreIn,
                   scoreOut, trigger, batch, arg>>

NextStore ==
    \/ MethodNotAllowed
    \/ DiscoverCalled
    \/ LoopExit
    \/ NothingSaved
    \/ BatchBegin
    \/ PersistDeal
    \/ BatchCommit

SpecStore == InitStore /\ [][NextStore]_vars

-----------------------------------------------------------------------------
(* discover run again over the same html.                                  *)

\* a scraped listing with the scrapedAt its scrape gives it
Stamp_idFromClock(d, now) ==
    [f \in DOMAIN d \cup {"scrapedAt"} |->
        IF f = "scrapedAt" THEN now
        ELSE IF f = "id" THEN d.id \o "-" \o ToString(now)
        ELSE d[f]]

\* scrapedAt: now
Stamp(d, now) ==
    [f \in DOMAIN d \cup {"scrapedAt"} |->
        IF f = "scrapedAt" THEN now ELSE d[f]]

\* scrapeDealsFromHTML / scrapeProductsFromHTML on the page of source s, with
\* const now = Date.now() read once per page
ScrapeAt(p, s, page, now) ==
    LET deals == Scrape(p, s, page)
    IN  [k \in 1..Len(deals) |-> Stamp(deals[k], now)]

\* discover over the pages of the first two sources, scraped at the given
\* times
DiscoverOver(p, fixture, times, lim) ==
    LET all == ScrapeAt(p, 1, fixture[1], times[1])
               \o ScrapeAt(p, 2, fixture[2], times[2])
    IN  slice0(sortByDealScore(FilterQuality(p, Deduplicate(p, all))), lim)

\* the pages a fixture serves for the two sources
Fixtures(p) ==
    {<<a, b>> : a \in SeqsUpTo(TieCards(p), 2), b \in SeqsUpTo(TieCards(p), 1)}

InitReplay ==
    /\ clicks = <<>>
    /\ pipe \in Pipes
    /\ maxRequests = IF HasBudget(pipe) THEN MaxBudget ELSE 0
    /\ limit = DEFAULT_LIMIT
    /\ pc = "replay"
    /\ FreshRun
    /\ NoScoring
    /\ trigger = NoTrigger
    /\ store = <<>>
    /\ batch = <<>>
    /\ arg = ""
    /\ result = NoResult
    /\ replay \in {[fixture |-> fx, clock |-> 1, runs |-> <<>>] :
                      fx \in Fixtures(pipe)}

\* time passes
ClockTick ==
    /\ pc = "replay"
    /\ replay.clock < MaxClock
    /\ replay' = [replay EXCEPT !.clock = @ + 1]
    /\ UNCHANGED <<clicks, pipe, maxRequests, limit, pc, srcIdx, attempt,
                   requestCount, errors, dealsFound, html, allDeals, call,
                   fetchLog, httpCalls, delayLog, deduped, filtered, output,
                   scoreIn, scoreOut, trigger, store, batch, arg, result>>

\* one call of discover over the fixture: the first source is scraped now,
\* the second one now or later
DiscoverRun ==
    /\ pc = "replay"
    /\ Len(replay.runs) < 2
    /\ \E later \in replay.clock..MaxClock :
          \E deals \in {DiscoverOver(pipe, replay.fixture,
                                     <<replay.clock, later>>, limit)} :
              /\ output' = deals
              /\ replay' = [replay EXCEPT !.clock = later,
                                          !.runs = Append(@, deals)]
    /\ UNCHANGED <<clicks, pipe, maxRequests, limit, pc, srcIdx, attempt,
                   requestCount, errors, dealsFound, html, allDeals, call,
                   fetchLog, httpCalls, delayLog, deduped, filtered,
                   scoreIn, scoreOut, trigger, store, batch, arg, result>>

NextReplay == ClockTick \/ DiscoverRun

SpecReplay == InitReplay /\ [][NextReplay]_vars

-----------------------------------------------------------------------------
(* normalizeCategory on its own.                                           *)

\* words of titles and of category labels
CategoryWords ==
    {"Notebook", "notebook", "Dell", "Casa", "bike", "LEGO", "Games", "tv",
     "Mesa", "Cadeira", "Corrida"}

\* the texts normalizeCategory is called with
CategoryTexts ==
    {""} \cup CategoryWords
         \cup {a \o " " \o b : a \in CategoryWords, b \in CategoryWords}

\* a helper function is about to be called with arg
InitHelper(first, args) ==
    /\ clicks = <<>>
    /\ pipe = "community"
    /\ maxRequests = 0
    /\ limit = DEFAULT_LIMIT
    /\ pc = first
    /\ FreshRun
    /\ NoScoring
    /\ replay = NoReplay
    /\ trigger = NoTrigger
    /\ store = <<>>
    /\ batch = <<>>
    /\ arg \in args
    /\ result = NoResult

InitCategory == InitHelper("category", CategoryTexts)

NormalizeCommunity ==
    /\ pc = "category"
    /\ result' = [variant |-> "community",
                  value |-> normalizeCategory_community(arg)]
    /\ pc' = "categorized"
    /\ UNCHANGED <<clicks, replay, pipe, maxRequests, limit, srcIdx, attempt,
                   requestCount, errors, dealsFound, html, allDeals, call,
                   fetchLog, httpCalls, delayLog, deduped, filtered, output,
                   scoreIn, scoreOut, trigger, store, batch, arg>>

NormalizeAmazon ==
    /\ pc = "category"
    /\ result' = [variant |-> "amazon",
                  value |-> normalizeCategory_amazon(arg)]
    /\ pc' = "categorized"
    /\ UNCHANGED <<clicks, replay, pipe, maxRequests, limit, srcIdx, attempt,
                   requestCount, errors, dealsFound, html, allDeals, call,
                   fetchLog, httpCalls, delayLog, deduped, filtered, output,
                   scoreIn, scoreOut, trigger, store, batch, arg>>

NormalizeLocal ==
    /\ pc = "category"
    /\ result' = [variant |-> "local",
                  value |-> normalizeCategory_local(arg)]
    /\ pc' = "categorized"
    /\ UNCHANGED <<clicks, replay, pipe, maxRequests, limit, srcIdx, attempt,
                   requestCount, errors, dealsFound, html, allDeals, call,
                   fetchLog, httpCalls, delayLog, deduped, filtered, output,
                   scoreIn, scoreOut, trigger, store, batch, arg>>

NextCategory ==
    \/ NormalizeCommunity
    \/ NormalizeAmazon
    \/ NormalizeLocal

SpecCategory == InitCategory /\ [][NextCategory]_vars

-----------------------------------------------------------------------------
(* parsePrice on its own.                                                  *)

\* a JavaScript number as parseFloat gives it: the decimal m * 10^x with no
\* trailing zero in m, Infinity, or NaN
RECURSIVE Dec(_, _)
Dec(m, x) ==
    IF m = 0 THEN [kind |-> "dec", m |-> 0, x |-> 0]
    ELSE IF m % 10 = 0 THEN Dec(m \div 10, x + 1)
    ELSE [kind |-> "dec", m |-> m, x |-> x]

PlusInfinity == [kind |-> "inf", m |-> 1, x |-> 0]
MinusInfinity == [kind |-> "inf", m |-> -1, x |-> 0]
FloatNaN == [kind |-> "nan", m |-> 0, x |-> 0]

\* the characters \s matches in the inputs
WhiteSpace == {" ", "\t", "\n"}

\* replace(/[R$\s]/g, "")
RECURSIVE StripCurrency(_)
StripCurrency(s) ==
    IF Len(s) = 0 THEN ""
    ELSE (IF SubSeq(s, 1, 1) \in {"R", "$"} \cup WhiteSpace
          THEN "" ELSE SubSeq(s, 1, 1))
         \o StripCurrency(SubSeq(s, 2, Len(s)))

\* the three characters after position i of s are digits: (?=\d{3})
ThreeDigitsAfter(s, i) ==
    /\ i + 3 <= Len(s)
    /\ \A k \in (i + 1)..(i + 3) : SubSeq(s, k, k) \in DigitChars

\* replace(/\.(?=\d{3})/g, ""), from position i on
RECURSIVE StripThousands(_, _)
StripThousands(s, i) ==
    IF i > Len(s) THEN ""
    ELSE (IF SubSeq(s, i, i) = "." /\ ThreeDigitsAfter(s, i)
          THEN "" ELSE SubSeq(s, i, i))
         \o StripThousands(s, i + 1)

\* replace(",", "."): the first comma only
RECURSIVE CommaToPoint(_)
CommaToPoint(s) ==
    IF Len(s) = 0 THEN ""
    ELSE IF SubSeq(s, 1, 1) = "," THEN "." \o SubSeq(s, 2, Len(s))
    ELSE SubSeq(s, 1, 1) \o CommaToPoint(SubSeq(s, 2, Len(s)))

\* index of the first character of s, from i on, that is not a digit
RECURSIVE DigitsEnd(_, _)
DigitsEnd(s, i) ==
    IF i <= Len(s) /\ SubSeq(s, i, i) \in DigitChars
    THEN DigitsEnd(s, i + 1) ELSE i

\* the exponent part of a decimal literal at position i of s, 0 if there is
\* none
ExponentAt(s, i) ==
    IF i <= Len(s) /\ SubSeq(s, i, i) \in {"e", "E"}
    THEN LET signed == i + 1 <= Len(s) /\ SubSeq(s, i + 1, i + 1) \in {"+", "-"}
             from == IF signed THEN i + 2 ELSE i + 1
         IN  IF DigitsEnd(s, from) = from THEN 0
             ELSE (IF signed /\ SubSeq(s, i + 1, i + 1) = "-" THEN -1 ELSE 1)
                  * DigitRun(s, from, 0)
    ELSE 0

\* the decimal literal of s at position i: digits, a point and digits, an
\* exponent; NaN when there is no digit
DecimalAt(s, i, sign) ==
    LET intEnd == DigitsEnd(s, i)
        hasPoint == intEnd <= Len(s) /\ SubSeq(s, intEnd, intEnd) = "."
        fracEnd == IF hasPoint THEN DigitsEnd(s, intEnd + 1) ELSE intEnd
        fracLen == IF hasPoint THEN fracEnd - (intEnd + 1) ELSE 0
        whole == DigitRun(s, i, 0)
        m == IF hasPoint THEN DigitRun(s, intEnd + 1, whole) ELSE whole
    IN  IF intEnd = i /\ fracLen = 0 THEN FloatNaN
        ELSE Dec(sign * m, ExponentAt(s, fracEnd) - fracLen)

\* parseFloat from position i of s, the blanks skipped: a sign, then
\* Infinity or a decimal literal
FloatAt(s, i) ==
    LET signed == i <= Len(s) /\ SubSeq(s, i, i) \in {"+", "-"}
        sign == IF signed /\ SubSeq(s, i, i) = "-" THEN -1 ELSE 1
        from == IF signed THEN i + 1 ELSE i
    IN  IF from + 7 <= Len(s) /\ SubSeq(s, from, from + 7) = "Infinity"
        THEN (IF sign = 1 THEN PlusInfinity ELSE MinusInfinity)
        ELSE DecimalAt(s, from, sign)

\* index of the first character of s, from i on, that is not white space
RECURSIVE SkipWhiteSpace(_, _)
SkipWhiteSpace(s, i) ==
    IF i <= Len(s) /\ SubSeq(s, i, i) \in WhiteSpace
    THEN SkipWhiteSpace(s, i + 1) ELSE i

parseFloat(s) == FloatAt(s, SkipWhiteSpace(s, 1))

\* parsePrice, the same in the community and in the Amazon scraper
parsePrice(priceStr) ==
    IF priceStr = "" THEN Dec(0, 0)
    ELSE LET price == parseFloat(CommaToPoint(
                          StripThousands(StripCurrency(priceStr), 1)))
         IN  IF price.kind = "nan" THEN Dec(0, 0) ELSE price

\* prices written the Brazilian way, with what they denote in centavos: a
\* currency prefix, the reais with or without a thousands group, a comma
\* and the centavos
BrazilianPrices ==
    {[text |-> prefix \o lead.text
               \o (IF group.text = "" THEN "" ELSE "." \o group.text)
               \o (IF cents.text = "" THEN "" ELSE "," \o cents.text),
      centavos |-> (IF group.text = "" THEN lead.n
                    ELSE lead.n * 1000 + group.n) * 100 + cents.n] :
        prefix \in {"", "R$", "R$ "},
        lead \in {[text |-> "1", n |-> 1], [text |-> "12", n |-> 12],
                  [text |-> "99", n |-> 99], [text |-> "0", n |-> 0]},
        group \in {[text |-> "", n |-> 0], [text |-> "234", n |-> 234],
                   [text |-> "000", n |-> 0]},
        cents \in {[text |-> "", n |-> 0], [text |-> "56", n |-> 56],
                   [text |-> "90", n |-> 90], [text |-> "05", n |-> 5]}}

\* texts of a price element that denote no number
NoPriceTexts ==
    {"", "grátis", "Frete grátis", "R$", "R$ --", "-", ",", ".",
     "Indisponível", "Infinity", "a partir de"}

PriceTexts == {b.text : b \in BrazilianPrices} \cup NoPriceTexts

InitPrice == InitHelper("price", PriceTexts)

ParsePriceCommunity ==
    /\ pc = "price"
    /\ result' = [variant |-> "community", value |-> parsePrice(arg)]
    /\ pc' = "parsed"
    /\ UNCHANGED <<clicks, replay, pipe, maxRequests, limit, srcIdx, attempt,
                   requestCount, errors, dealsFound, html, allDeals, call,
                   fetchLog, httpCalls, delayLog, deduped, filtered, output,
                   scoreIn, scoreOut, trigger, store, batch, arg>>

ParsePriceAmazon ==
    /\ pc = "price"
    /\ result' = [variant |-> "amazon", value |-> parsePrice(arg)]
    /\ pc' = "parsed"
    /\ UNCHANGED <<clicks, replay, pipe, maxRequests, limit, srcIdx, attempt,
                   requestCount, errors, dealsFound, html, allDeals, call,
                   fetchLog, httpCalls, delayLog, deduped, filtered, output,
                   scoreIn, scoreOut, trigger, store, batch, arg>>

NextPrice == ParsePriceCommunity \/ ParsePriceAmazon

SpecPrice == InitPrice /\ [][NextPrice]_vars

-----------------------------------------------------------------------------
(* The discount of a card on its own.                                      *)

\* cards by what their price, list price and discount badge elements give
DiscountCards ==
    {[NoCard EXCEPT !.price = price, !.originalPrice = originalPrice,
                    !.badge = badge] :
        price \in {0, 50, 100, 999},
        originalPrice \in {0, 100, 200, 1000},
        badge \in {0, 15, 50}}

InitDiscount == InitHelper("card", DiscountCards)

DiscountCommunity ==
    /\ pc = "card"
    /\ result' = [variant |-> "community", value |-> DealDiscount(arg)]
    /\ pc' = "discounted"
    /\ UNCHANGED <<clicks, replay, pipe, maxRequests, limit, srcIdx, attempt,
                   requestCount, errors, dealsFound, html, allDeals, call,
                   fetchLog, httpCalls, delayLog, deduped, filtered, output,
                   scoreIn, scoreOut, trigger, store, batch, arg>>

DiscountAmazon ==
    /\ pc = "card"
    /\ result' = [variant |-> "amazon", value |-> ProductDiscount(arg)]
    /\ pc' = "discounted"
    /\ UNCHANGED <<clicks, replay, pipe, maxRequests, limit, srcIdx, attempt,
                   requestCount, errors, dealsFound, html, allDeals, call,
                   fetchLog, httpCalls, delayLog, deduped, filtered, output,
                   scoreIn, scoreOut, trigger, store, batch, arg>>

DiscountLocal ==
    /\ pc = "card"
    /\ result' = [variant |-> "local", value |-> ProductDiscount(arg)]
    /\ pc' = "discounted"
    /\ UNCHANGED <<clicks, replay, pipe, maxRequests, limit, srcIdx, attempt,
                   requestCount, errors, dealsFound, html, allDeals, call,
                   fetchLog, httpCalls, delayLog, deduped, filtered, output,
                   scoreIn, scoreOut, trigger, store, batch, arg>>

NextDiscount ==
    \/ DiscountCommunity
    \/ DiscountAmazon
    \/ DiscountLocal

SpecDiscount == InitDiscount /\ [][NextDiscount]_vars

-----------------------------------------------------------------------------
(* The discount of a card, from the text of its badge.                     *)

\* index of the first digit of s from i on, Len(s) + 1 when there is none
RECURSIVE FirstDigit(_, _)
FirstDigit(s, i) ==
    IF i > Len(s) \/ SubSeq(s, i, i) \in DigitChars THEN i
    ELSE FirstDigit(s, i + 1)

\* parseDiscount: the first run of digits of the text, 0 without one
parseDiscount(discountStr) ==
    IF FirstDigit(discountStr, 1) > Len(discountStr) THEN 0
    ELSE DigitRun(discountStr, FirstDigit(discountStr, 1), 0)

\* discountText.match(/(\d+)%/), from position i on: the first run of
\* digits that a percent sign follows, 0 without one
RECURSIVE BadgePercent(_, _)
BadgePercent(discountText, i) ==
    LET from == FirstDigit(discountText, i)
        to == DigitsEnd(discountText, from)
    IN  IF from > Len(discountText) THEN 0
        ELSE IF to <= Len(discountText) /\ SubSeq(discountText, to, to) = "%"
        THEN DigitRun(discountText, from, 0)
        ELSE BadgePercent(discountText, to)

\* texts of the badge element of a card
BadgeTexts ==
    {"", "15%", "-15%", "50% OFF", "150% OFF", "100%", "Frete grátis",
     "12x sem juros", "Cupom 2024", "Leve 3 e ganhe 300%"}

\* cards by their prices and the text of their badge
BadgeCards ==
    {[card |-> [NoCard EXCEPT !.price = price,
                              !.originalPrice = originalPrice],
      text |-> text] :
        price \in {0, 50, 999},
        originalPrice \in {0, 100, 1000},
        text \in BadgeTexts}

InitBadge == InitHelper("badge", BadgeCards)

BadgeCommunity ==
    /\ pc = "badge"
    /\ result' = [variant |-> "community",
                  value |-> DealDiscount([arg.card EXCEPT
                                !.badge = parseDiscount(arg.text)])]
    /\ pc' = "extracted"
    /\ UNCHANGED <<clicks, replay, pipe, maxRequests, limit, srcIdx, attempt,
                   requestCount, errors, dealsFound, html, allDeals, call,
                   fetchLog, httpCalls, delayLog, deduped, filtered, output,
                   scoreIn, scoreOut, trigger, store, batch, arg>>

BadgeAmazon ==
    /\ pc = "badge"
    /\ result' = [variant |-> "amazon",
                  value |-> ProductDiscount([arg.card EXCEPT
                                !.badge = BadgePercent(arg.text, 1)])]
    /\ pc' = "extracted"
    /\ UNCHANGED <<clicks, replay, pipe, maxRequests, limit, srcIdx, attempt,
                   requestCount, errors, dealsFound, html, allDeals, call,
                   fetchLog, httpCalls, delayLog, deduped, filtered, output,
                   scoreIn, scoreOut, trigger, store, batch, arg>>

BadgeLocal ==
    /\ pc = "badge"
    /\ result' = [variant |-> "local",
                  value |-> ProductDiscount([arg.card EXCEPT
                                !.badge = BadgePercent(arg.text, 1)])]
    /\ pc' = "extracted"
    /\ UNCHANGED <<clicks, replay, pipe, maxRequests, limit, srcIdx, attempt,
                   requestCount, errors, dealsFound, html, allDeals, call,
                   fetchLog, httpCalls, delayLog, deduped, filtered, output,
                   scoreIn, scoreOut, trigger, store, batch, arg>>

NextBadge ==
    \/ BadgeCommunity
    \/ BadgeAmazon
    \/ BadgeLocal

SpecBadge == InitBadge /\ [][NextBadge]_vars

-----------------------------------------------------------------------------
(* The loop over the card selectors of one extraction.                     *)

\* cards the selectors of a page match: listings of three items and a card
\* that yields none
SelectorCards(p) == IF p = "community" THEN {1, 12, 14, 16} ELSE {1, 16, 19, 20}

\* what the first three card selectors match on a page, in document order
SelectorMatches(p) ==
    {<<a, b, c>> : a \in SeqsUpTo(SelectorCards(p), 2),
                   b \in SeqsUpTo(SelectorCards(p), 2),
                   c \in SeqsUpTo(SelectorCards(p), 1)}

\* the listings so far after the .each over the cards one selector matches
PassListings(p, cards, listings, processed) ==
    CASE p = "community" -> scrapeDealsFromHTML(cards, 1, listings, processed)
      [] p = "amazon" -> scrapeProductsFromHTML(cards, 1, listings, processed)
      [] p = "local" -> scrapeProductsFromPage(cards, 1, listings, processed)

\* what a pass that stays below the cap adds to processedTitles or to
\* processedAsins (a pass that reaches the cap is the last one that reads them)
PassProcessed(p, cards) ==
    IF p = "community"
    THEN {cards[k].titleKey : k \in {n \in 1..Len(cards) :
              Len(cards[n].title) >= MIN_TITLE_LENGTH}}
    ELSE {cards[k].asin : k \in {n \in 1..Len(cards) :
              Len(cards[n].asin) = ASIN_LENGTH}}

\* whether the selector loop goes on after a pass
NextSelectorTried(p, listings) ==
    CASE p = "community" -> Len(listings) = 0
      [] p = "amazon" -> Len(listings) < MAX_PRODUCTS_PER_SOURCE_AMAZON
      [] p = "local" -> TRUE

InitSelectors ==
    /\ clicks = <<>>
    /\ pipe \in Pipes
    /\ maxRequests = 0
    /\ limit = DEFAULT_LIMIT
    /\ pc = "cards"
    /\ FreshRun
    /\ NoScoring
    /\ replay = NoReplay
    /\ trigger = NoTrigger
    /\ store = <<>>
    /\ batch = <<>>
    /\ arg \in {[matches |-> m, sel |-> 1, processed |-> {}, tried |-> {},
                 origin |-> <<>>] : m \in SelectorMatches(pipe)}
    /\ result = [variant |-> pipe, value |-> <<>>]

\* a loop that stops at the first selector that matches a card
SelectorPass_stopsAtFirstMatch ==
    /\ pc = "cards"
    /\ arg.sel <= Len(arg.matches)
    /\ \E cards \in {CardsOf(pipe, 1, arg.matches[arg.sel])} :
          \E listings \in {PassListings(pipe, cards, result.value,
                                        arg.processed)} :
              /\ result' = [result EXCEPT !.value = listings]
              /\ arg' = [arg EXCEPT
                    !.sel = @ + 1,
                    !.processed = @ \cup PassProcessed(pipe, cards),
                    !.tried = @ \cup {arg.sel},
                    !.origin = @ \o [k \in 1..(Len(listings)
                                     - Len(result.value)) |-> arg.sel]]
              /\ pc' = IF Len(cards) = 0 THEN "cards" ELSE "extracted"
    /\ UNCHANGED <<clicks, replay, pipe, maxRequests, limit, srcIdx, attempt,
                   requestCount, errors, dealsFound, html, allDeals, call,
                   fetchLog, httpCalls, delayLog, deduped, filtered, output,
                   scoreIn, scoreOut, trigger, store, batch>>

\* one turn of the loop over the card selectors: the .each over the cards
\* the selector matches, then the break test
SelectorPass ==
    /\ pc = "cards"
    /\ arg.sel <= Len(arg.matches)
    /\ \E cards \in {CardsOf(pipe, 1, arg.matches[arg.sel])} :
          \E listings \in {PassListings(pipe, cards, result.value,
                                        arg.processed)} :
              /\ result' = [result EXCEPT !.value = listings]
              /\ arg' = [arg EXCEPT
                    !.sel = @ + 1,
                    !.processed = @ \cup PassProcessed(pipe, cards),
                    !.tried = @ \cup {arg.sel},
                    !.origin = @ \o [k \in 1..(Len(listings)
                                     - Len(result.value)) |-> arg.sel]]
              /\ pc' = IF NextSelectorTried(pipe, listings)
                       THEN "cards" ELSE "extracted"
    /\ UNCHANGED <<clicks, replay, pipe, maxRequests, limit, srcIdx, attempt,
                   requestCount, errors, dealsFound, html, allDeals, call,
                   fetchLog, httpCalls, delayLog, deduped, filtered, output,
                   scoreIn, scoreOut, trigger, store, batch>>

\* no selector is left: the extractor returns
SelectorsDone ==
    /\ pc = "cards"
    /\ arg.sel > Len(arg.matches)
    /\ pc' = "extracted"
    /\ UNCHANGED <<clicks, replay, pipe, maxRequests, limit, srcIdx, attempt,
                   requestCount, errors, dealsFound, html, allDeals, call,
                   fetchLog, httpCalls, delayLog, deduped, filtered, output,
                   scoreIn, scoreOut, trigger, store, batch, arg, result>>

NextSelectors == SelectorPass \/ SelectorsDone

SpecSelectors == InitSelectors /\ [][NextSelectors]_vars

-----------------------------------------------------------------------------
(* One extraction pass over the cards of a page.                           *)

\* the number of numbered cards a long page can hold: more than any cap
NumberedCards == 32

\* two decimal digits
TwoDigits(n) == ToString(n \div 10) \o ToString(n % 10)

\* community cards: a deal, a deal of a second item, a card with the first
\* title and no Amazon link, a short title, a card whose only link is the
\* deal page of the community site, two items linked with the referral tag
\* of the site, the first item under a second title; then numbered deals
ExtractCommunityCards ==
    << CommunityBase,
       CommunityCards[12],
       CommunityCards[14],
       CommunityCards[15],
       [CommunityBase EXCEPT
           !.href = "https://www.pelando.com.br/d/echo-dot-amazon",
           !.title = "Echo Dot 5 Geracao Alexa"],
       [CommunityBase EXCEPT
           !.href = "https://www.amazon.com.br/gp/aw/d/B0AAAAAAA1?tag=pelando-20",
           !.title = "Notebook Lenovo Ideapad 3"],
       [CommunityBase EXCEPT
           !.href = "https://www.amazon.com.br/gp/aw/d/B0AAAAAAA2?tag=pelando-20",
           !.title = "Panela Eletrica Mondial"],
       [CommunityBase EXCEPT !.title = "Dell Inspiron 15 Notebook i5"] >>
    \o [n \in 1..NumberedCards |->
           [CommunityBase EXCEPT
               !.href = "https://www.amazon.com.br/dp/B0000000" \o TwoDigits(n),
               !.title = "Oferta numero " \o TwoDigits(n)]]

\* product cards: a product, a second product, the first ASIN under a title
\* that is too short, an ASIN read off the link, a card with no ASIN, a
\* third product, the first ASIN under a second title, a short data-asin;
\* then numbered products
ExtractProductCards ==
    << ProductBase,
       ProductCards[16],
       ProductCards[19],
       ProductCards[17],
       [ProductBase EXCEPT !.dataAsin = "", !.title = "Fone JBL Tune 510"],
       ProductCards[20],
       [ProductBase EXCEPT !.title = "Dell Inspiron 15 Notebook i5"],
       [ProductBase EXCEPT !.dataAsin = "B0AAA"] >>
    \o [n \in 1..NumberedCards |->
           [ProductBase EXCEPT
               !.dataAsin = "B0000000" \o TwoDigits(n),
               !.title = "Oferta numero " \o TwoDigits(n)]]

\* the link scrapeDealsFromHTML takes for the Amazon link of a card
AmazonLink(c) ==
    IF includes(c.href, "amazon") \/ includes(c.href, "amzn") THEN c.href
    ELSE ""

\* the ASIN scrapeProductsFromHTML reads off a card
CardAsin(c) ==
    IF c.dataAsin # "" THEN c.dataAsin
    ELSE extractAsin_amazon(IF includes(c.href, "/dp/")
                               \/ includes(c.href, "/product/")
                            THEN c.href ELSE "")

\* the ASIN scrapeProductsFromPage reads off a card
CardAsinLocal(c) ==
    IF c.dataAsin # "" THEN c.dataAsin
    ELSE extractAsin_local(IF includes(c.href, "/dp/") THEN c.href ELSE "")

\* the facts of the cards of a pass under the first source, computed once
ExtractFacts ==
    [p \in Pipes |->
        CASE p = "community" ->
               [k \in 1..Len(ExtractCommunityCards) |->
                   CommunityFacts(ExtractCommunityCards[k],
                                  COMMUNITY_SOURCES[1],
                                  AmazonLink(ExtractCommunityCards[k]))]
          [] p = "amazon" ->
               [k \in 1..Len(ExtractProductCards) |->
                   ProductFacts(ExtractProductCards[k],
                                CardAsin(ExtractProductCards[k]),
                                SCRAPE_SOURCES[1].category,
                                SCRAPE_SOURCES[1].type)]
          [] p = "local" ->
               [k \in 1..Len(ExtractProductCards) |->
                   LocalFacts(ExtractProductCards[k],
                              CardAsinLocal(ExtractProductCards[k]),
                              SCRAPE_URLS[1].category,
                              SCRAPE_URLS[1].type)]]

\* the pages of a pass: up to two of the first eight cards, or a run of
\* numbered cards around the caps
ExtractPages ==
    SeqsUpTo(1..8, 2)
    \cup {[k \in 1..n |-> 8 + k] : n \in {24, 25, 26, 29, 30, 31, 32}}

InitExtract ==
    /\ clicks = <<>>
    /\ pipe \in Pipes
    /\ maxRequests = 0
    /\ limit = DEFAULT_LIMIT
    /\ pc = "page"
    /\ FreshRun
    /\ NoScoring
    /\ replay = NoReplay
    /\ trigger = NoTrigger
    /\ store = <<>>
    /\ batch = <<>>
    /\ arg \in ExtractPages
    /\ result = [variant |-> pipe, value |-> <<>>]

\* the pass of the scraper of the pipeline over the cards of the page; it
\* has no access to stats
ExtractPass ==
    /\ pc = "page"
    /\ result' = [result EXCEPT !.value =
           ScrapeCards(pipe, [j \in 1..Len(arg) |-> ExtractFacts[pipe][arg[j]]])]
    /\ pc' = "returned"
    /\ UNCHANGED <<clicks, replay, pipe, maxRequests, limit, srcIdx, attempt,
                   requestCount, errors, dealsFound, html, allDeals, call,
                   fetchLog, httpCalls, delayLog, deduped, filtered, output,
                   scoreIn, scoreOut, trigger, store, batch, arg>>

NextExtract == ExtractPass

SpecExtract == InitExtract /\ [][NextExtract]_vars

-----------------------------------------------------------------------------
(* Two fetch runs and the creative generator on one collection.            *)

\* what discover may return to a run: the ranked listings of a page
RaceOutputs ==
    {DiscoverOver("community", <<page, <<>>>>, <<1, 1>>, DEFAULT_LIMIT) :
        page \in SeqsUpTo({1, 12}, 2)} \ {<<>>}

\* a run that has its deals and an empty batch
RunStarted(kind, deals) ==
    [kind |-> kind, deals |-> deals, i |-> 1, batch |-> <<>>, committed |-> FALSE]

\* the update of generateCreative
CreativeFields(asin) ==
    [creativeUrl |-> "https://storage.googleapis.com/creatives/" \o asin \o ".jpg",
     creativeGeneratedAt |-> "now"]

InitRace ==
    /\ clicks = <<>>
    /\ pipe = "community"
    /\ maxRequests = MAX_REQUESTS
    /\ limit = DEFAULT_LIMIT
    /\ pc = "race"
    /\ FreshRun
    /\ NoScoring
    /\ replay = NoReplay
    /\ trigger = NoTrigger
    /\ store \in {st \in Stores : DOMAIN st \subseteq {"B0AAAAAAA1"}}
    /\ batch = <<>>
    /\ arg \in {[runs |-> <<RunStarted(k1, d1), RunStarted(k2, d2)>>,
                 creatives |-> {}] :
                   k1 \in {"scheduled", "manual"}, k2 \in {"scheduled", "manual"},
                   d1 \in RaceOutputs, d2 \in RaceOutputs}
    /\ result = NoResult

\* one iteration of the loop of run r over its deals: await docRef.get(),
\* then the write it queues on its batch
RunGet(r) ==
    /\ pc = "race"
    /\ arg.runs[r].i <= Len(arg.runs[r].deals)
    /\ \E deal \in {arg.runs[r].deals[arg.runs[r].i]} :
          \E exists \in {DocId(arg.runs[r], deal) \in DOMAIN store} :
              arg' = [arg EXCEPT
                  !.runs[r].i = @ + 1,
                  !.runs[r].batch = @ \o QueuedWrite(arg.runs[r], deal, exists)]
    /\ UNCHANGED <<clicks, replay, pipe, maxRequests, limit, pc, srcIdx, attempt,
                   requestCount, errors, dealsFound, html, allDeals, call,
                   fetchLog, httpCalls, delayLog, deduped, filtered, output,
                   scoreIn, scoreOut, trigger, store, batch, result>>

\* await batch.commit() of run r
RunCommit(r) ==
    /\ pc = "race"
    /\ arg.runs[r].i > Len(arg.runs[r].deals)
    /\ ~arg.runs[r].committed
    /\ store' = ApplyWrites(store, arg.runs[r].batch, 1)
    /\ arg' = [arg EXCEPT !.runs[r].committed = TRUE]
    /\ UNCHANGED <<clicks, replay, pipe, maxRequests, limit, pc, srcIdx, attempt,
                   requestCount, errors, dealsFound, html, allDeals, call,
                   fetchLog, httpCalls, delayLog, deduped, filtered, output,
                   scoreIn, scoreOut, trigger, batch, result>>

\* generateCreative for a product that exists and has no creative yet
GenerateCreative ==
    /\ pc = "race"
    /\ \E asin \in DOMAIN store :
          /\ "creativeUrl" \notin DOMAIN store[asin]
          /\ store' = [store EXCEPT
                          ![asin] = MergeFields(@, CreativeFields(asin))]
          /\ arg' = [arg EXCEPT !.creatives = @ \cup {asin}]
    /\ UNCHANGED <<clicks, replay, pipe, maxRequests, limit, pc, srcIdx, attempt,
                   requestCount, errors, dealsFound, html, allDeals, call,
                   fetchLog, httpCalls, delayLog, deduped, filtered, output,
                   scoreIn, scoreOut, trigger, batch, result>>

NextRace ==
    \/ \E r \in 1..2 : RunGet(r)
    \/ \E r \in 1..2 : RunCommit(r)
    \/ GenerateCreative

SpecRace == InitRace /\ [][NextRace]_vars

-----------------------------------------------------------------------------
(* trackClick.                                                             *)

\* the number of requests trackClick answers in a run of the model
MaxClicks == 2

\* requests: the method, and the productId and timestamp of the body ("" and
\* 0 when the body has none)
ClickRequests ==
    [method : {"POST", "GET"},
     productId : {"", "B0AAAAAAA1", "B0AAAAAAA3", "B0ZZZZZZZ9"},
     timestamp : {0, 7}]

\* the document trackClick adds to the clicks collection
ClickDocument(req) ==
    [productId |-> req.productId,
     timestamp |-> [millis |-> req.timestamp, dateNow |-> req.timestamp = 0],
     groupId |-> "direct",
     createdAt |-> "now"]

\* a handler that records the click before it looks the product up; C30
\* tells it from trackClick
trackClick_recordsFirst(req, products) ==
    IF req.method # "POST" THEN [status |-> 405, added |-> <<>>]
    ELSE IF req.productId = "" THEN [status |-> 400, added |-> <<>>]
    ELSE IF req.productId \notin DOMAIN products
    THEN [status |-> 404, added |-> <<ClickDocument(req)>>]
    ELSE [status |-> 200, added |-> <<ClickDocument(req)>>]

\* trackClick: the status it answers with and what it adds to clicks
trackClick(req, products) ==
    IF req.method # "POST" THEN [status |-> 405, added |-> <<>>]
    ELSE IF req.productId = "" THEN [status |-> 400, added |-> <<>>]
    ELSE IF req.productId \notin DOMAIN products
    THEN [status |-> 404, added |-> <<>>]
    ELSE [status |-> 200, added |-> <<ClickDocument(req)>>]

InitClick ==
    /\ clicks = <<>>
    /\ pipe = "community"
    /\ maxRequests = MAX_REQUESTS
    /\ limit = DEFAULT_LIMIT
    /\ pc = "listening"
    /\ FreshRun
    /\ NoScoring
    /\ replay = NoReplay
    /\ trigger = NoTrigger
    /\ store \in Stores
    /\ batch = <<>>
    /\ arg = 0
    /\ result = NoResult

\* a request arrives and trackClick answers it
ClickRequest ==
    /\ pc = "listening"
    /\ arg < MaxClicks
    /\ \E req \in ClickRequests :
          \E answer \in {trackClick(req, store)} :
              /\ trigger' = [kind |-> "trackClick", request |-> req]
              /\ clicks' = clicks \o answer.added
              /\ result' = [variant |-> "status", value |-> answer.status]
    /\ arg' = arg + 1
    /\ UNCHANGED <<replay, pipe, maxRequests, limit, pc, srcIdx, attempt,
                   requestCount, errors, dealsFound, html, allDeals, call,
                   fetchLog, httpCalls, delayLog, deduped, filtered, output,
                   scoreIn, scoreOut, store, batch>>

NextClick == ClickRequest

SpecClick == InitClick /\ [][NextClick]_vars

-----------------------------------------------------------------------------
(* Properties.                                                             *)

Range(s) == {s[i] : i \in 1..Len(s)}

\* an attempt after which fetchWithRetry hands the body to its caller
Succeeded(o) == o = "ok" \/ (pipe = "community" /\ o = "keyword")

\* the key the dedup loop of the running pipeline groups by
DedupKey(d) == IF pipe = "community" /\ d.asin = "" THEN d.id ELSE d.asin

\* a session whose ceiling is lower than the number of its sources
BudgetBelowSources == HasBudget(pipe) /\ maxRequests < NumSources(pipe)

\* C1: in every reachable state of a session of the community or the Amazon
\* pipeline, stats.requestCount is at most the request ceiling.
C1_RequestCountWithinCeiling ==
    HasBudget(pipe) => requestCount <= maxRequests

\* C1, the overshoot under the shipped configuration: the Amazon session with
\* its ceiling of MAX_REQUESTS_PER_SESSION has counted more requests than that
C1_OvershootAsConfigured ==
    /\ pipe = "amazon"
    /\ maxRequests = MAX_REQUESTS_PER_SESSION
    /\ requestCount > maxRequests

\* C2: a fetchWithRetry call entered with requestCount at or above the
\* ceiling issues no HTTP request, leaves requestCount and stats.errors as
\* they were, and returns null.
C2_CeilingCallIsSkipped ==
    call.count0 >= maxRequests =>
        /\ pc \in {"call", "ret"}
        /\ httpCalls = call.http0
        /\ requestCount = call.count0
        /\ errors = call.errors0
        /\ pc = "ret" => (html = NoHtml /\ call.result = "null")

\* C2, its case: a call entered above the ceiling, with an error already in
\* the log, has returned
C2_SkippedAboveCeiling ==
    /\ pc = "ret"
    /\ call.count0 > maxRequests
    /\ call.errors0 # <<>>
    /\ call.result = "null"

\* C3, as claimed: when the session ends, a ceiling B lower than the number
\* of sources has let exactly B sources be fetched, and no error entry names
\* a source that was skipped.
C3_ExactlyBudgetSources ==
    (pc = "done" /\ BudgetBelowSources) =>
        /\ Len(fetchLog) = maxRequests
        /\ \A e \in Range(errors) : e.src <= Len(fetchLog)

\* C3, amended: every attempt, retries included, counts against the ceiling
\* B, so the sources fetched are the first n in order with
\* B / MAX_RETRIES <= n <= B, and n = B when each of them took a single
\* attempt; the other sources are skipped and no error entry names one.
C3_AtMostBudgetSources ==
    (pc = "done" /\ BudgetBelowSources) =>
        /\ Len(fetchLog) <= maxRequests
        /\ Len(fetchLog) * MAX_RETRIES >= maxRequests
        /\ (\A k \in 1..Len(fetchLog) : Len(fetchLog[k].outcomes) = 1)
              => Len(fetchLog) = maxRequests
        /\ \A k \in 1..Len(fetchLog) : fetchLog[k].src = k
        /\ \A e \in Range(errors) : e.src <= Len(fetchLog)

\* C3, its case: with a ceiling of 2 the retry of the first source used the
\* budget up; one source was fetched, the others skipped, one error logged
C3_RetryUsedTheBudget ==
    /\ pc = "done"
    /\ pipe = "amazon"
    /\ maxRequests = 2
    /\ Len(fetchLog) = 1
    /\ Len(fetchLog[1].outcomes) = 2
    /\ Len(errors) = 1

\* C4: a fetchWithRetry call entered below the ceiling makes at most
\* MAX_RETRIES attempts; when all of them failed it returns null and has
\* appended exactly one error; when one succeeded it returns the body and has
\* appended none, whatever failed before.
C4_OneFetchCall ==
    (HasBudget(pipe) /\ call.result # "none" /\ call.count0 < maxRequests) =>
        /\ Len(call.outcomes) <= MAX_RETRIES
        /\ attempt <= MAX_RETRIES
        /\ pc = "ret" =>
            /\ requestCount = call.count0 + Len(call.outcomes)
            /\ (\A i \in 1..Len(call.outcomes) : call.outcomes[i] = "fail") =>
                  /\ call.result = "null"
                  /\ html.isNull
                  /\ errors = Append(call.errors0,
                                     [src |-> call.src, kind |-> "failed"])
            /\ (\E i \in 1..Len(call.outcomes) : Succeeded(call.outcomes[i])) =>
                  /\ call.result = "body"
                  /\ ~html.isNull
                  /\ errors = call.errors0

\* C4, its case: in a session that has an error logged already, a call whose
\* first attempt failed and whose second succeeded has returned
C4_RetryThenBody ==
    /\ pc = "ret"
    /\ call.outcomes = <<"fail", "ok">>
    /\ call.errors0 # <<>>

\* C5, as claimed: in every fetcher, a body with a blocking keyword makes the
\* call return null with exactly one error appended, the keyword response
\* being its last attempt.
C5_EveryFetcherBlocks ==
    (pc = "ret" /\ \E i \in 1..Len(call.outcomes) : call.outcomes[i] = "keyword") =>
        /\ call.result = "null"
        /\ html.isNull
        /\ Len(errors) = Len(call.errors0) + 1
        /\ call.outcomes[Len(call.outcomes)] = "keyword"

\* C5, amended: the Amazon fetcher returns null on a body with a blocking
\* keyword, appends exactly one error and makes no further attempt; the
\* community fetcher does not scan the body: it returns it and appends
\* nothing.
C5_AmazonFetcherBlocks ==
    (pc \in {"cooldown", "ret"}
     /\ \E i \in 1..Len(call.outcomes) : call.outcomes[i] = "keyword") =>
        IF pipe = "amazon"
        THEN /\ \A i \in 1..Len(call.outcomes) :
                    call.outcomes[i] = "keyword" <=> i = Len(call.outcomes)
             /\ errors = Append(call.errors0, [src |-> call.src, kind |-> "bot"])
             /\ requestCount = call.count0 + Len(call.outcomes)
             /\ pc = "ret" => (call.result = "null" /\ html.isNull)
        ELSE /\ pipe = "community"
             /\ call.result = "body"
             /\ ~html.isNull /\ html.keyword
             /\ errors = call.errors0

\* C5, its case: the Amazon fetcher met the keyword on its second attempt
\* and has returned
C5_BlockedOnRetry ==
    /\ pipe = "amazon"
    /\ pc = "ret"
    /\ call.outcomes = <<"fail", "keyword">>

\* C6: whatever the attempts answer, discover reaches its end and returns;
\* a source that yielded nothing only moves the loop on to the next source;
\* at the end either every source was fetched or the budget is used up.
C6_DiscoverReturns ==
    /\ <>(pc = "done")
    /\ [][(pc = "ret" /\ html.isNull) =>
            /\ pc' \in {"loop", "delay"}
            /\ srcIdx' = IF pc' = "loop" THEN srcIdx + 1 ELSE srcIdx
            /\ allDeals' = allDeals]_vars
    /\ [](pc = "done" =>
            \/ Len(fetchLog) = NumSources(pipe)
            \/ HasBudget(pipe) /\ requestCount >= maxRequests)

\* C6, its case: discover returned after a source that yielded nothing was
\* followed by one that yielded a page
C6_FailedThenFetched ==
    /\ pc = "done"
    /\ \E k \in 1..(Len(fetchLog) - 1) :
          /\ fetchLog[k].result = "null"
          /\ fetchLog[k + 1].result = "body"

\* C7: after deduplication no two listings share a key; every key of the
\* input survives; the survivor of a key is the input listing of that key
\* with the highest score, the first of them in input order.
C7_DedupKeepsBest ==
    pc = "done" =>
        /\ \A i, j \in 1..Len(deduped) :
              i # j => DedupKey(deduped[i]) # DedupKey(deduped[j])
        /\ {DedupKey(d) : d \in Range(deduped)} = {DedupKey(d) : d \in Range(allDeals)}
        /\ \A i \in 1..Len(deduped) :
              \E j \in 1..Len(allDeals) :
                  /\ deduped[i] = allDeals[j]
                  /\ \A k \in 1..Len(allDeals) :
                        DedupKey(allDeals[k]) = DedupKey(allDeals[j]) =>
                            \/ allDeals[k].dealScore < allDeals[j].dealScore
                            \/ /\ allDeals[k].dealScore = allDeals[j].dealScore
                               /\ k >= j

\* C7, its case: two different listings of one key and one score came in,
\* and the first of them is the survivor
C7_TieKeepsFirst ==
    /\ pc = "done"
    /\ Len(allDeals) = 2
    /\ DedupKey(allDeals[1]) = DedupKey(allDeals[2])
    /\ allDeals[1].dealScore = allDeals[2].dealScore
    /\ allDeals[1] # allDeals[2]
    /\ deduped = <<allDeals[1]>>

\* C8, as claimed: every listing that discover returns has its price inside
\* the band, its popularity at or above the floor, its discount at or above
\* the floor (where the pipeline configures one) and its title long enough.
C8_AllHardConstraints ==
    pc = "done" /\ HasBudget(pipe) =>
        \A d \in Range(output) :
            /\ Len(d.title) >= MIN_TITLE_LENGTH
            /\ IF pipe = "community"
               THEN /\ d.price >= MIN_PRICE_COMMUNITY /\ d.price <= MAX_PRICE_COMMUNITY
                    /\ d.upvotes >= MIN_UPVOTES
                    /\ d.discount >= MIN_DISCOUNT
               ELSE /\ d.price >= MIN_PRICE /\ d.price <= MAX_PRICE
                    /\ d.rating10 >= MIN_RATING
                    /\ d.reviewCount >= MIN_REVIEWS

\* what the quality filters of the pipelines let through
MeetsAppliedConstraints(d) ==
    /\ Len(d.title) >= MIN_TITLE_LENGTH
    /\ IF pipe = "community"
       THEN /\ d.price <= 0
               \/ (d.price >= MIN_PRICE_COMMUNITY /\ d.price <= MAX_PRICE_COMMUNITY)
            /\ d.upvotes >= MIN_UPVOTES
            /\ d.discount >= MIN_DISCOUNT
       ELSE /\ Len(d.asin) = ASIN_LENGTH
            /\ d.price >= MIN_PRICE /\ d.price <= MAX_PRICE
            /\ d.rating10 <= 0 \/ d.rating10 >= MIN_RATING
            /\ d.reviewCount <= 0 \/ d.reviewCount >= MIN_REVIEWS

\* C8, amended: what discover returns holds only listings that pass the
\* filter of their pipeline, and the filter keeps exactly the deduplicated
\* listings that pass.  Community: title of 10 characters or more, price
\* unknown (0) or inside the band, upvotes and discount at or above their
\* floors, a discount equal to the floor passing.  Amazon: item id of 10
\* characters, title of 10 or more, price inside the band, rating unknown
\* (0) or at or above its floor, review count unknown (0) or at or above its
\* floor; no discount floor is configured there.
C8_AppliedConstraints ==
    pc = "done" /\ HasBudget(pipe) =>
        /\ Range(output) \subseteq Range(filtered)
        /\ Range(filtered) = {d \in Range(deduped) : MeetsAppliedConstraints(d)}

\* C8, its case: a community deal whose discount equals the floor is in the
\* output
C8_FloorDiscountKept ==
    /\ pc = "done"
    /\ pipe = "community"
    /\ \E d \in Range(output) : d.discount = MIN_DISCOUNT

\* C9: every scoring variant returns an integer from 0 to 100.
C9_ScoreInRange ==
    scoreOut.variant # "none" => scoreOut.value \in 0..100

\* C9, the excess: the local script scores a listing above 100
C9_LocalScoreAbove100 ==
    /\ scoreOut.variant = "local"
    /\ scoreOut.value > 100

\* C10: the output is in non-increasing order of deal score.
C10_OutputSorted ==
    pc = "done" =>
        \A i \in 1..(Len(output) - 1) :
            output[i].dealScore >= output[i + 1].dealScore

\* C10, its case: two listings came in with the lower score first and went
\* out with the higher score first
C10_SortReorders ==
    /\ pc = "done"
    /\ Len(allDeals) = 2
    /\ allDeals[1].dealScore < allDeals[2].dealScore
    /\ output = <<allDeals[2], allDeals[1]>>

\* C11: discover returns at most limit listings, the first limit of the
\* ranked list, and the manual trigger never obtains more than 50 listings,
\* whatever its limit query parameter is.
C11_AtMostLimit ==
    (pc = "done" /\ trigger.kind # "none") =>
        /\ ~LimitArg(trigger).nan =>
              /\ Len(output) <= LimitArg(trigger).n
              /\ \A k \in 1..Len(output) : output[k] = sortByDealScore(filtered)[k]
        /\ trigger.kind = "manual" => Len(output) <= MANUAL_LIMIT_CAP

\* C11, the excess: the manual trigger asked for limit=-1 and discover
\* returned listings
C11_NegativeLimitReturnsListings ==
    /\ pc = "done"
    /\ trigger.kind = "manual"
    /\ trigger.limitParam = "-1"
    /\ limit = -1
    /\ Len(filtered) = 2
    /\ Len(output) = 1

\* the place at which a listing was discovered: source order, then card
\* order within the source
DiscoveryIndex(d) == Least({k \in 1..Len(allDeals) : allDeals[k] = d})

\* C12: listings of the output that have equal scores are in the order in
\* which they were discovered, also when one of them replaced an earlier
\* duplicate of lower score.
C12_TiesInDiscoveryOrder ==
    pc = "done" =>
        \A i, j \in 1..Len(output) :
            (i < j /\ output[i].dealScore = output[j].dealScore) =>
                DiscoveryIndex(output[i]) < DiscoveryIndex(output[j])

\* C12, the inversion in the community pipeline: a listing found third took
\* the place of its lower-scoring duplicate found first, and is returned
\* ahead of the listing of equal score found second
C12_SurvivorTakesEarlierPlace ==
    /\ pc = "done"
    /\ pipe = "community"
    /\ Len(allDeals) = 3
    /\ DedupKey(allDeals[1]) = DedupKey(allDeals[3])
    /\ allDeals[1].dealScore < allDeals[3].dealScore
    /\ allDeals[2].dealScore = allDeals[3].dealScore
    /\ output = <<allDeals[3], allDeals[2]>>

\* the listings of allDeals that share the key of d
KeyGroup(d) == {k \in 1..Len(allDeals) : DedupKey(allDeals[k]) = DedupKey(d)}

\* the dedup survivor of the key of d: highest score, first seen on ties
Survivor(d) ==
    allDeals[Least({k \in KeyGroup(d) :
                       \A g \in KeyGroup(d) :
                           allDeals[g].dealScore <= allDeals[k].dealScore})]

\* the survivors of the other keys that pass the filter and score higher
\* than d (Ahead), or at least as high (AheadOrLevel)
Ahead(d) ==
    {DedupKey(e) : e \in {x \in Range(allDeals) :
        /\ DedupKey(x) # DedupKey(d)
        /\ MeetsAppliedConstraints(Survivor(x))
        /\ Survivor(x).dealScore > Survivor(d).dealScore}}

AheadOrLevel(d) ==
    {DedupKey(e) : e \in {x \in Range(allDeals) :
        /\ DedupKey(x) # DedupKey(d)
        /\ MeetsAppliedConstraints(Survivor(x))
        /\ Survivor(x).dealScore >= Survivor(d).dealScore}}

\* C13: dedup runs before the quality filter. A listing of the output is the
\* dedup survivor of its key, and that survivor passes the filter and has
\* fewer than limit passing survivors ahead of it; a survivor that passes
\* and is within the first limit is in the output. A lower-scoring duplicate
\* never stands in for a survivor that fails the filter.
C13_OnlySurvivorIsFiltered ==
    pc = "done" =>
        /\ \A o \in Range(output) :
              /\ o = Survivor(o)
              /\ MeetsAppliedConstraints(o)
              /\ Cardinality(Ahead(o)) < limit
        /\ \A d \in Range(allDeals) :
              (/\ MeetsAppliedConstraints(Survivor(d))
               /\ Cardinality(AheadOrLevel(d)) < limit) =>
                  Survivor(d) \in Range(output)
        /\ \A d \in Range(allDeals) :
              ~MeetsAppliedConstraints(Survivor(d)) =>
                  \A o \in Range(output) : DedupKey(o) # DedupKey(d)

\* C13, its case: the survivor of a key fails the filter, a lower-scoring
\* duplicate of the key would pass, the limit leaves room, and the output
\* holds no listing of the key
C13_PassingDuplicateDropped ==
    /\ pc = "done"
    /\ HasBudget(pipe)
    /\ limit >= 1
    /\ Len(allDeals) = 2
    /\ DedupKey(allDeals[1]) = DedupKey(allDeals[2])
    /\ allDeals[1].dealScore > allDeals[2].dealScore
    /\ ~MeetsAppliedConstraints(allDeals[1])
    /\ MeetsAppliedConstraints(allDeals[2])
    /\ deduped = <<allDeals[1]>>
    /\ output = <<>>

\* the number of delays that followed source i
DelaysAfter(i) == Cardinality({k \in 1..Len(delayLog) : delayLog[k] = i})

\* C14: no inter-source delay follows the last configured source, none is
\* taken once the request budget is exhausted, and exactly one delay lies
\* between the fetches of two consecutive sources.
C14_DelayOnlyBetweenSources ==
    /\ DelaysAfter(NumSources(pipe)) = 0
    /\ (pc = "delay" /\ HasBudget(pipe)) => requestCount < maxRequests
    /\ \A i \in 1..(NumSources(pipe) - 1) :
          (call.src = i + 1 \/ \E k \in 1..Len(fetchLog) : fetchLog[k].src = i + 1) =>
              DelaysAfter(i) = 1

\* C14, the community loop: the budget is not used up when the last source
\* has been scraped, and the run sleeps before post-processing
C14_DelayAfterLastSource ==
    /\ pipe = "community"
    /\ pc = "delay"
    /\ srcIdx = NumSources(pipe)
    /\ requestCount < maxRequests
    /\ delayLog = <<1, 2>>

\* the HTTP requests issued and not yet answered
InFlight == httpCalls - call.http0 - Len(call.outcomes)

\* C15: at most one HTTP request is in flight; while the fetch of a source
\* runs, the fetch and the extraction of every earlier source are finished
\* and no later source has started; the session counters are written by
\* that one sequence of steps only, so none of its increments is lost.
C15_OneSourceAtATime ==
    /\ InFlight \in {0, 1}
    /\ InFlight = 1 <=> pc \in {"inflight", "goto"}
    /\ \A k \in 1..Len(fetchLog) :
          fetchLog[k].src = k /\ fetchLog[k].result \in {"body", "null"}
    /\ pc \in {"call", "inflight", "retrySleep", "cooldown", "goto", "ret"} =>
          /\ call.src = srcIdx
          /\ Len(fetchLog) = srcIdx - 1
    /\ dealsFound = Len(allDeals)
    /\ HasBudget(pipe) => requestCount = httpCalls

\* C15, its case: the request of the second source is in flight after the
\* first source took two attempts and its page was scraped
C15_SecondSourceAfterRetry ==
    /\ pc = "inflight"
    /\ call.src = 2
    /\ Len(fetchLog) = 1
    /\ fetchLog[1].outcomes = <<"fail", "ok">>
    /\ Len(allDeals) > 0
    /\ InFlight = 1

\* the fields a fetch run may refresh on an existing document
RefreshFields ==
    {"price", "originalPrice", "discount", "upvotes", "dealScore", "fetchedAt"}

\* the key under which a listing is stored: item id if there is one, else the
\* synthetic id
StoreKey(d) == IF d.asin # "" THEN d.asin ELSE d.id

\* C16: a run changes, on a document that exists, refresh fields only (price,
\* original price, discount, popularity, score, fetch timestamp), and leaves
\* its posted flag, click counter, creative URL, title and affiliate link as
\* they were; the manual trigger leaves an existing document as it was; a
\* document is created, with posted = FALSE and clicks = 0, only under the
\* key of a returned listing that had no document.
C16_RefreshKeepsState ==
    [][ /\ \A id \in DOMAIN store :
              /\ id \in DOMAIN store'
              /\ DOMAIN store[id] \subseteq DOMAIN store'[id]
              /\ DOMAIN store'[id] \ DOMAIN store[id] \subseteq RefreshFields
              /\ \A f \in DOMAIN store[id] \ RefreshFields :
                    store'[id][f] = store[id][f]
              /\ trigger.kind = "manual" => store'[id] = store[id]
        /\ \A id \in DOMAIN store' \ DOMAIN store :
              /\ store'[id].posted = FALSE
              /\ store'[id].clicks = 0
              /\ \E k \in 1..Len(output) : StoreKey(output[k]) = id
      ]_vars

\* C16, its case: a scheduled run has committed; the document that existed
\* has the new price and timestamp and its old title, link, posted flag,
\* clicks and creative, and a second listing got a new document
C16_RefreshedAndCreated ==
    /\ pc = "responded"
    /\ trigger.kind = "scheduled"
    /\ DOMAIN store = {"B0AAAAAAA1", "B0AAAAAAA2"}
    /\ store["B0AAAAAAA1"].fetchedAt = "now"
    /\ store["B0AAAAAAA1"].price # StoredDoc("B0AAAAAAA1").price
    /\ store["B0AAAAAAA1"].title = StoredDoc("B0AAAAAAA1").title
    /\ store["B0AAAAAAA1"].affiliateLink = StoredDoc("B0AAAAAAA1").affiliateLink
    /\ store["B0AAAAAAA1"].posted
    /\ store["B0AAAAAAA1"].clicks = 3
    /\ store["B0AAAAAAA1"].creativeUrl = StoredDoc("B0AAAAAAA1").creativeUrl
    /\ ~store["B0AAAAAAA2"].posted
    /\ store["B0AAAAAAA2"].clicks = 0

\* a returned list without the scrapedAt of its listings
Unstamped(deals) ==
    [k \in 1..Len(deals) |->
        [f \in DOMAIN deals[k] \ {"scrapedAt"} |-> deals[k][f]]]

TablesOf(variant) ==
    CASE variant = "community" -> {CATEGORY_KEYWORDS_community}
      [] variant = "amazon"    -> {CATEGORY_MAPPING, CATEGORY_ALIASES}
      [] variant = "local"     -> {CATEGORY_KEYWORDS_local}

\* the text matches a keyword of some table of the variant
MatchesKeyword(variant, text) ==
    \E table \in TablesOf(variant) :
        \E i \in 1..Len(table) :
            \E kw \in table[i].keywords :
                includes(toLowerCase(text), toLowerCase(kw))

\* C18: every variant of normalizeCategory returns one of electronics, home,
\* sports, toys, other; a text that contains "notebook" gives electronics; a
\* text that matches no keyword of any table gives other.
C18_NotebookIsElectronics ==
    pc = "categorized" =>
        /\ result.value \in Categories
        /\ includes(arg, "notebook") => result.value = "electronics"
        /\ ~MatchesKeyword(result.variant, arg) => result.value = "other"

\* C18, the Amazon variant: a title with "notebook" in it that also names a
\* home label is put under home
C18_NotebookUnderHome ==
    /\ pc = "categorized"
    /\ result.variant = "amazon"
    /\ arg = "notebook Casa"
    /\ result.value = "home"

\* the text has a digit in it
HasDigit(text) == \E i \in 1..Len(text) : SubSeq(text, i, i) \in DigitChars

\* C19: parsePrice returns a number on every input; on a price written the
\* Brazilian way it returns the amount the text denotes ("R$ 1.234,56" gives
\* 1234.56, "R$99,90" gives 99.90); on a text that denotes no number it
\* returns 0.
C19_ParsePrice ==
    pc = "parsed" =>
        /\ result.value.kind \in {"dec", "inf"}
        /\ \A b \in BrazilianPrices :
              arg = b.text => result.value = Dec(b.centavos, -2)
        /\ arg = "R$ 1.234,56" => result.value = Dec(123456, -2)
        /\ arg = "R$99,90" => result.value = Dec(9990, -2)
        /\ ~HasDigit(arg) => result.value = Dec(0, 0)

\* C19, the text Infinity: parseFloat reads it as a number and parsePrice
\* returns Infinity
C19_InfinityIsAPrice ==
    /\ pc = "parsed"
    /\ arg = "Infinity"
    /\ result.value = PlusInfinity

\* both prices of the card are there and the list price is the higher one
PricesGiveDiscount(c) == c.originalPrice > c.price /\ c.price > 0

\* round((listPrice - price) / listPrice * 100), in whole percent
RoundedPercent(c) ==
    CHOOSE r \in 0..100 :
        /\ 2 * 100 * (c.originalPrice - c.price) >= (2 * r - 1) * c.originalPrice
        /\ 2 * 100 * (c.originalPrice - c.price) < (2 * r + 1) * c.originalPrice

\* C20 as stated: the discount of a card is the rounded percentage whenever
\* both prices are there and listPrice > price > 0, whatever its badge
\* says; the badge is used only otherwise, and the discount is 0 when there
\* is neither.
C20_ComputedBeforeBadge ==
    pc = "discounted" =>
        result.value = IF PricesGiveDiscount(arg) THEN RoundedPercent(arg)
                       ELSE arg.badge

\* C20, amended: the community scraper takes the badge when it gives a
\* value above 0 and computes the percentage only otherwise; the Amazon
\* scraper and the local script compute the percentage first and take the
\* badge when the prices give no discount or one that rounds to 0.
C20_DiscountPerScraper ==
    pc = "discounted" =>
        result.value =
            IF result.variant = "community"
            THEN (IF arg.badge > 0 THEN arg.badge
                  ELSE IF PricesGiveDiscount(arg) THEN RoundedPercent(arg)
                  ELSE 0)
            ELSE (IF PricesGiveDiscount(arg) /\ RoundedPercent(arg) > 0
                  THEN RoundedPercent(arg)
                  ELSE arg.badge)

\* C20, its case: a community card priced 100, down from 200, with a badge
\* of 15% gets a discount of 15
C20_BadgeBeforeComputed ==
    /\ pc = "discounted"
    /\ result.variant = "community"
    /\ arg.price = 100 /\ arg.originalPrice = 200 /\ arg.badge = 15
    /\ RoundedPercent(arg) = 50
    /\ result.value = 15

\* C21: the discount of an extracted listing is an integer from 0 to 100,
\* whatever the badge and the price elements of its card hold.
C21_DiscountInRange ==
    pc = "extracted" => result.value \in 0..100

\* C21, a badge that names more than 100 percent: the Amazon scraper gives
\* the listing a discount of 150
C21_BadgeAbove100 ==
    /\ pc = "extracted"
    /\ result.variant = "amazon"
    /\ arg.text = "150% OFF"
    /\ result.value = 150

MarketplaceLink(url) ==
    \E host \in {"https://www.amazon.com.br/", "https://amzn.to/"} :
        Len(url) >= Len(host) /\ SubSeq(url, 1, Len(host)) = host

\* C23: every listing the community extractor returns has a title of at
\* least the minimum length and an outbound link to the marketplace, and the
\* pass adds nothing to stats.errors
C23_ListingsHaveTitleAndLink ==
    (pc = "returned" /\ pipe = "community") =>
        /\ errors = <<>>
        /\ \A i \in 1..Len(result.value) :
              /\ Len(result.value[i].title) >= MIN_TITLE_LENGTH
              /\ MarketplaceLink(result.value[i].amazonUrl)

\* C23: the card whose only link is the deal page of the community site is
\* returned as a listing
C23_DealPageTakenForMarketplace ==
    /\ pc = "returned" /\ pipe = "community"
    /\ arg = <<5>>
    /\ Len(result.value) = 1
    /\ result.value[1].amazonUrl = "https://www.pelando.com.br/d/echo-dot-amazon"

\* the item id of a marketplace URL: the ten characters of its /dp/ or
\* /gp/product/ path segment, "" when it has neither
ItemIdOf(url) ==
    FirstAsin(<< MatchFixed(url, toLowerCase(url), "/dp/"),
                 MatchFixed(url, toLowerCase(url), "/gp/product/") >>, 1)

\* C24: the asin of a listing of the community extractor is the item id of
\* its marketplace URL, so that listings of different items never carry the
\* same asin
C24_AsinIsItemId ==
    (pc = "returned" /\ pipe = "community") =>
        \A i \in 1..Len(result.value) :
            result.value[i].asin # "" =>
                result.value[i].asin = ItemIdOf(result.value[i].amazonUrl)

\* C24: two items linked with the referral tag of the community site are
\* both returned, with the tag as the asin and the id of each
C24_ReferralTagAsAsin ==
    /\ pc = "returned" /\ pipe = "community"
    /\ arg = <<6, 7>>
    /\ Len(result.value) = 2
    /\ result.value[1].amazonUrl # result.value[2].amazonUrl
    /\ result.value[1].asin = "PELANDO-20"
    /\ result.value[2].asin = "PELANDO-20"
    /\ result.value[1].id = result.value[2].id

\* the key the claim names: the item id when the listing has one, else the
\* title in lower case, cut at 50 characters
PassKey(l) == IF l.asin # "" THEN l.asin ELSE substring0(toLowerCase(l.title), 50)

\* the cap of the pass of a pipeline
PassCap(p) ==
    CASE p = "community" -> MAX_PRODUCTS_PER_SOURCE
      [] p = "amazon" -> MAX_PRODUCTS_PER_SOURCE_AMAZON
      [] p = "local" -> MAX_PRODUCTS_PER_PAGE_LOCAL

ValidCard(p, f) ==
    IF p = "community"
    THEN Len(f.title) >= MIN_TITLE_LENGTH /\ f.amazonUrl # ""
    ELSE Len(f.asin) = ASIN_LENGTH /\ Len(f.title) >= 5

\* the key the pass of pipeline p remembers a card by
CardKey(p, f) == IF p = "community" THEN f.titleKey ELSE f.asin

\* the listing the pass of pipeline p builds from a card
CardListing(p, f) == IF p = "community" THEN f.deal ELSE f.product

\* C26: on a page below the cap, a valid card with no valid card of its key
\* before it is returned as a listing, whatever discarded cards precede it
C26_DiscardedCardShadowsNone ==
    (pc = "returned" /\ Len(arg) <= 2) =>
        \A j \in 1..Len(arg) :
            (/\ ValidCard(pipe, ExtractFacts[pipe][arg[j]])
             /\ \A k \in 1..(j - 1) :
                   ValidCard(pipe, ExtractFacts[pipe][arg[k]]) =>
                       CardKey(pipe, ExtractFacts[pipe][arg[k]])
                       # CardKey(pipe, ExtractFacts[pipe][arg[j]]))
            => \E i \in 1..Len(result.value) :
                   result.value[i] = CardListing(pipe, ExtractFacts[pipe][arg[j]])

\* C26: a product card with a title that is too short comes first, the
\* valid card of the same ASIN second, and the pass returns nothing
C26_ValidCardShadowed ==
    /\ pc = "returned" /\ pipe = "amazon"
    /\ arg = <<3, 1>>
    /\ ~ValidCard(pipe, ExtractFacts[pipe][3])
    /\ ValidCard(pipe, ExtractFacts[pipe][1])
    /\ result.value = <<>>

\* C27: in the Amazon scraper the normalized category of a listing is the
\* category it was given: the category of its source, or for the general
\* deals source normalizeCategory(title)
C27_NormalizedIsSourceCategory ==
    pipe = "amazon" =>
        \A i \in 1..Len(allDeals) :
            allDeals[i].normalizedCategory = allDeals[i].category

\* C27: a listing of the electronics bestsellers source is filed under
\* "other"
C27_ElectronicsFiledUnderOther ==
    /\ pipe = "amazon"
    /\ \E i \in 1..Len(allDeals) :
          /\ allDeals[i].category = "electronics"
          /\ allDeals[i].source = "bestsellers"
          /\ allDeals[i].normalizedCategory = "other"

\* C28: whatever the interleaving of two fetch runs and the creative
\* generator, a step leaves the posted flag, the click counter and the
\* creative URL of every document that exists as they were, and the batch of
\* a run holds at most one write per document key
C28_NoResetUnderInterleaving ==
    [][ /\ \A id \in DOMAIN store :
              /\ id \in DOMAIN store'
              /\ store'[id].posted = store[id].posted
              /\ store'[id].clicks = store[id].clicks
              /\ "creativeUrl" \in DOMAIN store[id] =>
                    /\ "creativeUrl" \in DOMAIN store'[id]
                    /\ store'[id].creativeUrl = store[id].creativeUrl
        /\ \A r \in 1..2 : \A i, j \in 1..Len(arg'.runs[r].batch) :
              i < j => arg'.runs[r].batch[i].id # arg'.runs[r].batch[j].id
      ]_vars

\* C28: both runs have committed and a product that was given a creative
\* has none
C28_CreativeLostToSecondCommit ==
    /\ pc = "race"
    /\ arg.runs[1].committed /\ arg.runs[2].committed
    /\ \E id \in arg.creatives :
          /\ "creativeUrl" \notin DOMAIN store[id]
          /\ \E k \in 1..Len(arg.runs[2].batch) :
                arg.runs[2].batch[k] =
                    [op |-> "set", id |-> id,
                     data |-> store[id]]

\* C29: at the end of a session stats.errors holds at most one entry per
\* source, in source order, each for a source whose fetch was started and
\* did not return a body, and stats.requestCount is the number of HTTP
\* requests issued
C29_ErrorsPerStartedSource ==
    (pc = "done" /\ HasBudget(pipe)) =>
        /\ \A k, l \in 1..Len(errors) : k < l => errors[k].src < errors[l].src
        /\ \A k \in 1..Len(errors) :
              \E m \in 1..Len(fetchLog) :
                  /\ fetchLog[m].src = errors[k].src
                  /\ Len(fetchLog[m].outcomes) > 0
                  /\ fetchLog[m].result = "null"
        /\ requestCount = httpCalls

\* C29: the first source returned a body on its second attempt, the second
\* one failed twice; one entry, for the second source, and four requests
C29_OneEntryFourRequests ==
    /\ pc = "done"
    /\ HasBudget(pipe)
    /\ Len(fetchLog) = 2
    /\ fetchLog[1].outcomes = <<"fail", "ok">>
    /\ fetchLog[1].result = "body"
    /\ fetchLog[2].outcomes = <<"fail", "fail">>
    /\ errors = <<[src |-> 2, kind |-> "failed"]>>
    /\ requestCount = 4
    /\ httpCalls = 4

====
